---- MODULE Spec2Model ----
(***************************************************************************)
(* Presence and broadcast subsystem of koordinator_app:                    *)
(*   backend/app/core/websocket_manager.py  (WebSocketManager)             *)
(*   backend/app/core/redis_manager.py      (RedisManager)                 *)
(*   backend/app/core/rate_limit.py         (RateLimiter)                  *)
(*   backend/app/modules/chat/router.py     (the two websocket endpoints)  *)
(*                                                                         *)
(* A connection handle is a websocket object owned by one endpoint         *)
(* invocation; pc/hv hold the position and the locals of that invocation.  *)
(* Every worker process has its own WebSocketManager; the store mode is    *)
(* the outcome of init_redis and is the same for all workers.              *)
(***************************************************************************)
EXTENDS Integers, Sequences, FiniteSets, TLC

\* ---------------------------------------------------------------- bounds
NProc == 2
NHandles == 3
NSockets == 6
NUsers == 2
NChannels == 2
NRegChannels == 1
MaxTime == 4
MaxCalls == 4
MaxRequests == 2
MaxWindow == 2
NKeys == 2
NTopics == 2
NCallbacks == 2
MaxSubs == 3
MaxPub == 2
MaxInbox == 1
MaxList == 3
MaxMsgs == 2
MaxVal == 3

NEventTypes == 2

NEvHandlers == 3

MaxBusSubs == 3

\* close codes used by the manager and the user endpoint
CODE_LOGOUT == 1000
CODE_KICK == 4003
CODE_INTERNAL == 1011
CODE_SHUTDOWN == 1001

CODE_POLICY == 1008
MAX_USER_CONNECTIONS == 5

Procs == 1..NProc
Handles == 1..NHandles
Sockets == 1..NSockets
Users == 1..NUsers
Channels == 1..NChannels
RegChannels == 1..NRegChannels
RLKeys == 1..NKeys
Topics == 1..NTopics
Callbacks == 1..NCallbacks

VARIABLES
    active_connections,  \* [proc -> dict channel_id -> Seq(<<ws, user_id>>)]
    channel_users,       \* [proc -> dict channel_id -> set of user_id]
    user_connections,    \* [proc -> dict user_id -> Seq(ws)]
    session_starts,      \* [proc -> dict user_id -> time]  (_local_session_starts)
    is_connected,        \* RedisManager._is_connected
    fallback_mode,       \* RedisManager._fallback_mode
    inbox,               \* [proc -> Seq(msg)]: ws:broadcast:all messages the backend
                         \*   has handed to the worker's listener, not yet dispatched
    workers,             \* the worker processes that are running
    pc,                  \* [handle -> position of the endpoint that owns it]
    hv,                  \* [handle -> locals of that endpoint]
    close_code,          \* [handle -> 0 (not closed by the server) or the close code]
    dead,                \* handles whose peer is gone: send_json raises
    now,                 \* the clock
    sent_count,          \* [handle -> [msg id -> number of send_json calls]]
    next_msg,            \* id of the next application message
    last,                \* what the last operation did (sends, publishes, raise)
    local_rate_limits,   \* rate_limit._local_rate_limits: dict key -> Seq(time)
    redis_kv,            \* the backend's rate:<key> entries: dict key -> [val, exp]
    rl_max,              \* max_requests of the check_limit calls under study
    rl_window,           \* window_seconds of those calls
    rl_log,              \* dict key -> Seq([t, ok]): the check_limit calls made so far
    local_subscribers,   \* RedisManager._local_subscribers: dict topic -> Seq(callback)
    ps_tasks,            \* tasks made by asyncio.create_task, not yet run
    ps_invoked,          \* [callback -> [msg -> number of invocations]]
    ps_calls,            \* [topic -> [callback -> number of subscribe calls]]
    ps_pub,              \* dict msg -> [topic, calls]: the publishes made so far
    redis_sessions,      \* the backend's session_starts hash: dict user -> time
    memory_sessions,     \* [proc -> dict user -> time]: _memory_cache["session_starts"]
    redis_online,        \* the backend's ws:online_users set
    dus_running,         \* <<proc, user>>: disconnect_user_sessions calls that have
                         \* closed the sockets and not yet cleaned up
    rm_redis,            \* RedisManager._redis is a client (not None)
    rm_pubsub,           \* RedisManager._pubsub is set
    memory_cache,        \* RedisManager._memory_cache, plain keys: dict key -> value
    memory_expiry,       \* RedisManager._memory_expiry: dict key -> time
    rm_last,             \* what the last RedisManager call did and returned
    eb_handlers,         \* EventBus._handlers: dict event type -> Seq(handler)
    eb_run               \* the EventBus.publish call in flight or last finished

storevars == <<redis_sessions, memory_sessions, redis_online>>

ilvars == <<dus_running>>

regvars == <<storevars, ilvars, active_connections, channel_users, user_connections, session_starts,
             is_connected, fallback_mode, inbox, workers, pc, hv, close_code, dead,
             sent_count, next_msg, last>>

wsvars == <<regvars, now>>

rlvars == <<local_rate_limits, redis_kv, rl_max, rl_window, rl_log>>

psvars == <<local_subscribers, ps_tasks, ps_invoked, ps_calls, ps_pub>>

rmvars == <<rm_redis, rm_pubsub, memory_cache, memory_expiry, rm_last>>

ebvars == <<eb_handlers, eb_run>>

vars == <<wsvars, rlvars, psvars, rmvars, ebvars>>

\* ------------------------------------------------------------ dict helpers
EmptyDict == << >>

DictSet(d, k, v) == [x \in (DOMAIN d) \cup {k} |-> IF x = k THEN v ELSE d[x]]

DictDel(d, k) == [x \in (DOMAIN d) \ {k} |-> d[x]]

DictGet(d, k, default) == IF k \in DOMAIN d THEN d[k] ELSE default

Range(s) == {s[i] : i \in DOMAIN s}

\* a removal that leaves the list as it is
RemoveNone(s, x) == s

\* list.remove(x): removes the first occurrence; the ValueError of a missing
\* element is swallowed by the caller
RemoveFirst(s, x) ==
    IF \E i \in DOMAIN s : s[i] = x
    THEN LET i == CHOOSE j \in DOMAIN s : s[j] = x /\ \A k \in 1..(j-1) : s[k] # x
         IN  SubSeq(s, 1, i-1) \o SubSeq(s, i+1, Len(s))
    ELSE s

\* ------------------------------------------------------------- store mode
is_available == is_connected /\ ~fallback_mode

\* ------------------------------------------------------------- messages
PresenceMsg(count) == [type |-> "presence", user |-> 0, val |-> count]

UserPresenceMsg(u, online) ==
    [type |-> "user_presence", user |-> u, val |-> IF online THEN 1 ELSE 0]

AppMsg(id) == [type |-> "msg", user |-> 0, val |-> id]

NoHv == [proc |-> 0, chan |-> 0, user |-> 0, member |-> FALSE, since |-> 0]

NoLast == [op |-> "init", proc |-> 0, ws |-> 0, chan |-> 0, user |-> 0, id |-> 0,
           excl |-> 0, sends |-> << >>, published |-> << >>, raised |-> FALSE,
           ident |-> TRUE, presence |-> [x \in Procs \X Users |-> "off"]]

\* the same with the course of the user_presence events followed from the start
Watched == [NoLast EXCEPT !.presence = [x \in Procs \X Users |-> "none"]]

\* ------------------------------------------------------------- sending
SendRaises(ws) == ws \in dead \/ close_code[ws] # 0

\* one send attempt of _safe_send: the exception of send_json is caught
SafeSend(ws, msg) == [ws |-> ws, msg |-> msg, ok |-> ~SendRaises(ws)]

\* a fan-out that stops at the first send that raises
GatherAbort(targets, msg) ==
    LET bad == {i \in DOMAIN targets : SendRaises(targets[i])}
        stop == IF bad = {} THEN Len(targets)
                ELSE CHOOSE i \in bad : \A j \in bad : i <= j
    IN  [i \in 1..stop |-> SafeSend(targets[i], msg)]

\* asyncio.gather(*tasks, return_exceptions=True) over _safe_send tasks:
\* one attempt per target, in list order
GatherSends(targets, msg) == [i \in DOMAIN targets |-> SafeSend(targets[i], msg)]

\* target selection that forgets the excluded websocket
ChannelTargetsAll(ac, c, exclude) ==
    IF c \notin DOMAIN ac THEN << >>
    ELSE [i \in DOMAIN ac[c] |-> ac[c][i][1]]

\* targets of broadcast_to_channel in manager state ac
ChannelTargets(ac, c, exclude) ==
    IF c \notin DOMAIN ac THEN << >>
    ELSE LET wss == [i \in DOMAIN ac[c] |-> ac[c][i][1]]
         IN  SelectSeq(wss, LAMBDA w : w # exclude)

broadcast_to_channel(ac, c, msg, exclude) ==
    GatherSends(ChannelTargets(ac, c, exclude), msg)

broadcast_to_user(uc, u, msg) == GatherSends(DictGet(uc, u, << >>), msg)

RECURSIVE FlattenUsers(_, _, _)
FlattenUsers(uc, keys, exclude) ==
    IF keys = {} THEN << >>
    ELSE LET k == CHOOSE x \in keys : \A y \in keys : x <= y
         IN  (IF k = exclude THEN << >> ELSE uc[k])
             \o FlattenUsers(uc, keys \ {k}, exclude)

\* _local_broadcast_to_all_users; exclude = 0 stands for None
local_broadcast_to_all_users(uc, msg, exclude) ==
    GatherSends(FlattenUsers(uc, DOMAIN uc, exclude), msg)

get_online_count(cu, c) == Cardinality(DictGet(cu, c, {}))

\* sent_count after the send attempts of one operation (application messages only)
RECURSIVE CountSends(_, _)
CountSends(sc, sends) ==
    IF sends = << >> THEN sc
    ELSE LET s == Head(sends)
             sc1 == IF s.msg.type = "msg" /\ s.msg.val \in 1..MaxMsgs
                    THEN [sc EXCEPT ![s.ws][s.msg.val] = @ + 1]
                    ELSE sc
         IN  CountSends(sc1, Tail(sends))

\* --------------------------------------------------------------- handles
\* a new websocket object: the endpoint invocation gets the lowest unused handle
NewHandle(ws) ==
    /\ pc[ws] = "idle"
    /\ \A w \in Sockets : w < ws => pc[w] # "idle"

\* ------------------------------------------------------------------ Init
\* the state after construction and init_redis: either mode; nothing registered
InitRegistry ==
    /\ active_connections = [p \in Procs |-> EmptyDict]
    /\ channel_users = [p \in Procs |-> EmptyDict]
    /\ user_connections = [p \in Procs |-> EmptyDict]
    /\ session_starts = [p \in Procs |-> EmptyDict]
    /\ inbox = [p \in Procs |-> << >>]
    /\ pc = [w \in Sockets |-> "idle"]
    /\ hv = [w \in Sockets |-> NoHv]
    /\ close_code = [w \in Sockets |-> 0]
    /\ dead = {}
    /\ now = 0
    /\ sent_count = [w \in Sockets |-> [m \in 1..MaxMsgs |-> 0]]
    /\ next_msg = 1
    /\ redis_sessions = EmptyDict
    /\ memory_sessions = [p \in Procs |-> EmptyDict]
    /\ redis_online = {}
    /\ dus_running = {}

InitManagers ==
    /\ InitRegistry
    /\ last = NoLast

\* no check_limit call made yet
InitLimiter ==
    /\ local_rate_limits = EmptyDict
    /\ redis_kv = EmptyDict
    /\ rl_log = EmptyDict

\* no subscriber, no publish yet
InitPubSub ==
    /\ local_subscribers = EmptyDict
    /\ ps_tasks = << >>
    /\ ps_invoked = [cb \in Callbacks |-> [m \in 1..MaxPub |-> 0]]
    /\ ps_calls = [t \in Topics |-> [cb \in Callbacks |-> 0]]
    /\ ps_pub = EmptyDict

\* the record of a RedisManager call: what was called, on which key, at what
\* time, what it returned (<< >> is None), whether it raised, whether the
\* backend call was attempted and failed, where the answer came from, and the
\* keys whose in-memory expiry it removed
NoRm == [op |-> "none", key |-> 0, t |-> 0, ret |-> << >>, raised |-> FALSE,
         fails |-> FALSE, path |-> "none", dropped |-> {}]

\* the store after init_redis with nothing written to it yet: a client and a
\* pubsub object exist exactly when the connect succeeded
InitStoreIdle ==
    /\ rm_redis = is_available
    /\ rm_pubsub = is_available
    /\ memory_cache = EmptyDict
    /\ memory_expiry = EmptyDict
    /\ rm_last = NoRm

\* the publish record: the event type, the position of the list iterator, the
\* handlers awaited so far (in order), the handlers of the type when the call
\* started, and those unsubscribed or subscribed while it was suspended
NoRun == [active |-> FALSE, etype |-> 0, idx |-> 0, called |-> << >>, start |-> << >>,
          removed |-> {}, added |-> {}]

\* a new EventBus: no handlers, no publish made
InitBus ==
    /\ eb_handlers = EmptyDict
    /\ eb_run = NoRun

InitIdleParts ==
    /\ InitLimiter
    /\ rl_max = 1
    /\ rl_window = 1
    /\ InitPubSub
    /\ InitStoreIdle
    /\ InitBus

Init ==
    /\ InitManagers
    /\ \E real \in BOOLEAN : is_connected = real /\ fallback_mode = ~real
    /\ workers = {1}
    /\ InitIdleParts

\* the same start, the course of the user_presence events followed
InitWatched ==
    /\ InitRegistry
    /\ last = Watched
    /\ \E real \in BOOLEAN : is_connected = real /\ fallback_mode = ~real
    /\ workers = {1}
    /\ InitIdleParts

\* what an endpoint leaves behind when it returns
Release(ws) ==
    /\ pc' = [pc EXCEPT ![ws] = "idle"]
    /\ hv' = [hv EXCEPT ![ws] = NoHv]
    /\ close_code' = [close_code EXCEPT ![ws] = 0]
    /\ dead' = dead \ {ws}

\* the record of one operation: its arguments, the send_json calls it made (in
\* order), what it published, whether it raised, (for an endpoint's checks)
\* whether the caller's identity was accepted, and the course of the
\* user_presence events each process has emitted for each user so far
Op(name, p, ws, c, u, sends, published, raised) ==
    [op |-> name, proc |-> p, ws |-> ws, chan |-> c, user |-> u, id |-> 0, excl |-> 0,
     sends |-> sends, published |-> published, raised |-> raised, ident |-> TRUE,
     presence |-> last.presence]

\* the course of a user's user_presence events after one more event: the
\* status of the event, marked when it repeats the status of the event before
\* it or is an 'offline' with no event before it; "off" where the course is
\* not followed
presence_after(prev, online) ==
    IF prev = "off" THEN "off"
    ELSE IF online
    THEN IF prev \in {"online", "online_again"} THEN "online_again" ELSE "online"
    ELSE IF prev \in {"online", "online_again"} THEN "offline"
    ELSE IF prev = "none" THEN "offline_first" ELSE "offline_again"

\* the operation called broadcast_to_all_users with a user_presence event
Emitting(rec, p, u, online) ==
    [rec EXCEPT !.presence[<<p, u>>] = presence_after(@, online)]

\* ------------------------------------------------- WebSocketManager.connect
connect_state(ac, cu, ws, c, u, is_member) ==
    LET fresh == c \notin DOMAIN ac
        ac0 == IF fresh THEN DictSet(ac, c, << >>) ELSE ac
        cu0 == IF fresh THEN DictSet(cu, c, {}) ELSE cu
        existing == SelectSeq(ac0[c], LAMBDA e : e[2] = u)
        cu1 == IF is_member /\ existing = << >>
               THEN [cu0 EXCEPT ![c] = @ \cup {u}]
               ELSE cu0
        ac1 == [ac0 EXCEPT ![c] = Append(@, <<ws, u>>)]
    IN  [ac |-> ac1, cu |-> cu1]

\* websocket_endpoint: manager.connect(websocket, channel_id, user_id, is_member)
Connect(p, ws, c, u, is_member) ==
    /\ p \in workers
    /\ NewHandle(ws)
    /\ LET r == connect_state(active_connections[p], channel_users[p], ws, c, u, is_member)
           msg == PresenceMsg(get_online_count(r.cu, c))
       IN  /\ active_connections' = [active_connections EXCEPT ![p] = r.ac]
           /\ channel_users' = [channel_users EXCEPT ![p] = r.cu]
           /\ last' = Op("connect", p, ws, c, u, broadcast_to_channel(r.ac, c, msg, 0),
                         << >>, FALSE)
    /\ pc' = [pc EXCEPT ![ws] = "chan"]
    /\ hv' = [hv EXCEPT ![ws] = [proc |-> p, chan |-> c, user |-> u,
                                 member |-> is_member, since |-> next_msg]]
    /\ UNCHANGED <<rlvars, psvars, ebvars, rmvars, ilvars, storevars, user_connections, session_starts, is_connected, fallback_mode,
                   inbox, workers, close_code, dead, now, sent_count, next_msg>>

\* ---------------------------------------------- WebSocketManager.disconnect
\* a disconnect that drops the user from the member set although another of the
\* user's connections stays in the channel
disconnect_state_eager(ac, cu, ws, c, u) ==
    LET ac0 == [ac EXCEPT ![c] = SelectSeq(@, LAMBDA e : e[1] # ws)]
        cu0 == IF c \in DOMAIN cu THEN [cu EXCEPT ![c] = @ \ {u}] ELSE cu
        empty == ac0[c] = << >>
    IN  [ac |-> IF empty THEN DictDel(ac0, c) ELSE ac0,
         cu |-> IF empty THEN DictDel(cu0, c) ELSE cu0]

\* a disconnect that leaves the member set of an emptied channel behind
disconnect_state_keep(ac, cu, ws, c, u) ==
    LET ac0 == [ac EXCEPT ![c] = SelectSeq(@, LAMBDA e : e[1] # ws)]
        remaining == \E i \in DOMAIN ac0[c] : ac0[c][i][2] = u
        cu0 == IF ~remaining /\ c \in DOMAIN cu
               THEN [cu EXCEPT ![c] = @ \ {u}]
               ELSE cu
    IN  [ac |-> IF ac0[c] = << >> THEN DictDel(ac0, c) ELSE ac0, cu |-> cu0]

\* a disconnect that never takes the user out of the member set
disconnect_state_lazy(ac, cu, ws, c, u) ==
    LET ac0 == [ac EXCEPT ![c] = SelectSeq(@, LAMBDA e : e[1] # ws)]
        empty == ac0[c] = << >>
    IN  [ac |-> IF empty THEN DictDel(ac0, c) ELSE ac0,
         cu |-> IF empty THEN DictDel(cu, c) ELSE cu]

disconnect_state(ac, cu, ws, c, u) ==
    LET ac0 == [ac EXCEPT ![c] = SelectSeq(@, LAMBDA e : e[1] # ws)]
        remaining == \E i \in DOMAIN ac0[c] : ac0[c][i][2] = u
        cu0 == IF ~remaining /\ c \in DOMAIN cu
               THEN [cu EXCEPT ![c] = @ \ {u}]
               ELSE cu
        empty == ac0[c] = << >>
        ac1 == IF empty THEN DictDel(ac0, c) ELSE ac0
        cu1 == IF empty THEN DictDel(cu0, c) ELSE cu0
    IN  [ac |-> ac1, cu |-> cu1]

\* the presence broadcast that ends disconnect
disconnect_sends(ac, cu, c) == broadcast_to_channel(ac, c, PresenceMsg(get_online_count(cu, c)), 0)

\* websocket_endpoint: receive raised (the client left, or the server closed the
\* socket); the handler calls manager.disconnect(websocket, channel_id, user_id)
Disconnect(ws) ==
    /\ pc[ws] = "chan"
    /\ LET p == hv[ws].proc
           c == hv[ws].chan
           u == hv[ws].user
       IN  IF c \in DOMAIN active_connections[p]
           THEN LET r == disconnect_state(active_connections[p], channel_users[p], ws, c, u)
                IN  /\ active_connections' = [active_connections EXCEPT ![p] = r.ac]
                    /\ channel_users' = [channel_users EXCEPT ![p] = r.cu]
                    /\ last' = Op("disconnect", p, ws, c, u, disconnect_sends(r.ac, r.cu, c),
                                  << >>, FALSE)
           ELSE /\ UNCHANGED <<active_connections, channel_users>>
                /\ last' = Op("disconnect", p, ws, c, u, << >>, << >>, FALSE)
    /\ Release(ws)
    /\ sent_count' = [sent_count EXCEPT ![ws] = [m \in 1..MaxMsgs |-> 0]]
    /\ UNCHANGED <<rlvars, psvars, ebvars, rmvars, ilvars, storevars, user_connections, session_starts, is_connected, fallback_mode,
                   inbox, workers, now, next_msg>>

\* ------------------------------------------------------ broadcast_to_all_users
\* the backend hands a published message to the listener of every running worker
Publish(ib, msg) == [q \in Procs |-> IF q \in workers THEN Append(ib[q], msg) ELSE ib[q]]

InboxRoom == \A q \in workers : Len(inbox[q]) < MaxInbox

WireMsg(msg, exclude) ==
    [type |-> msg.type, user |-> msg.user, val |-> msg.val, exclude |-> exclude]

\* a callback that fans the wire message out with its metadata left in
PayloadWithMeta(wire) == wire

\* the payload the subscription callback fans out: _exclude_user_id popped
PayloadOf(wire) == [type |-> wire.type, user |-> wire.user, val |-> wire.val]

\* a broadcast that publishes and also fans out locally
broadcast_to_all_users_both(uc, msg, exclude) ==
    IF is_available
    THEN [sends |-> local_broadcast_to_all_users(uc, msg, exclude),
          published |-> <<WireMsg(msg, exclude)>>]
    ELSE [sends |-> local_broadcast_to_all_users(uc, msg, exclude), published |-> << >>]

\* broadcast_to_all_users as called by process p whose user_connections are uc:
\* publish when the backend is available, local fan-out otherwise
broadcast_to_all_users(uc, msg, exclude) ==
    IF is_available
    THEN [sends |-> << >>, published |-> <<WireMsg(msg, exclude)>>]
    ELSE [sends |-> local_broadcast_to_all_users(uc, msg, exclude), published |-> << >>]

\* ------------------------------------------------------ session-start store
SessionStore == [redis |-> redis_sessions, memory |-> memory_sessions]

\* RedisManager.set_session_start -> hset("session_starts", user, time): the
\* process's _memory_cache in fallback mode, the backend's hash otherwise
set_session_start(st, p, u, t) ==
    IF fallback_mode
    THEN [st EXCEPT !.memory[p] = DictSet(@, u, t)]
    ELSE [st EXCEPT !.redis = DictSet(@, u, t)]

\* RedisManager.clear_session_start -> hdel("session_starts", user)
clear_session_start(st, p, u) ==
    IF fallback_mode
    THEN [st EXCEPT !.memory[p] = DictDel(@, u)]
    ELSE [st EXCEPT !.redis = DictDel(@, u)]

\* --------------------------------------------- WebSocketManager.connect_user
\* user_websocket_endpoint: manager.connect_user(websocket, user_id).  With the
\* backend available the first connection of a user calls redis_manager.sadd,
\* which RedisManager does not define: AttributeError after the registration;
\* the endpoint closes the socket with 1011 and returns without disconnect_user.
ConnectUser(p, ws, u) ==
    /\ p \in workers
    /\ NewHandle(ws)
    /\ LET uc == user_connections[p]
           is_first_connection == u \notin DOMAIN uc
           uc0 == IF is_first_connection THEN DictSet(uc, u, << >>) ELSE uc
           uc1 == [uc0 EXCEPT ![u] = Append(@, ws)]
           ss1 == IF is_first_connection
                  THEN DictSet(session_starts[p], u, now)
                  ELSE session_starts[p]
           raises == is_first_connection /\ is_available
           b == broadcast_to_all_users(uc1, UserPresenceMsg(u, TRUE), 0)
       IN  /\ user_connections' = [user_connections EXCEPT ![p] = uc1]
           /\ session_starts' = [session_starts EXCEPT ![p] = ss1]
           /\ LET st == IF is_first_connection
                        THEN set_session_start(SessionStore, p, u, now)
                        ELSE SessionStore
              IN  redis_sessions' = st.redis /\ memory_sessions' = st.memory
           /\ pc' = [pc EXCEPT ![ws] = IF raises THEN "gone" ELSE "user"]
           /\ close_code' = [close_code EXCEPT ![ws] = IF raises THEN CODE_INTERNAL ELSE 0]
           /\ last' = IF is_first_connection /\ ~raises
                      THEN Emitting(Op("connect_user", p, ws, 0, u, b.sends, b.published, FALSE),
                                    p, u, TRUE)
                      ELSE Op("connect_user", p, ws, 0, u, << >>, << >>, raises)
    /\ hv' = [hv EXCEPT ![ws] = [proc |-> p, chan |-> 0, user |-> u,
                                 member |-> FALSE, since |-> next_msg]]
    /\ UNCHANGED <<rlvars, psvars, ebvars, rmvars, ilvars, redis_online, active_connections, channel_users, is_connected, fallback_mode,
                   inbox, workers, dead, now, sent_count, next_msg>>

\* WebSocketManager.get_online_user_ids.  With the backend available it calls
\* redis_manager.smembers, which RedisManager does not define: AttributeError.
get_online_user_ids(p) ==
    IF is_available
    THEN [raised |-> TRUE, ids |-> {}]
    ELSE [raised |-> FALSE, ids |-> DOMAIN user_connections[p]]

\* ------------------------------------------ WebSocketManager.disconnect_user
\* user_websocket_endpoint, finally: manager.disconnect_user(websocket, user_id),
\* up to the asyncio.sleep(0.5) (or to the end when connections remain)
DisconnectUser(ws) ==
    /\ pc[ws] = "user"
    /\ LET p == hv[ws].proc
           u == hv[ws].user
           uc == user_connections[p]
           known == u \in DOMAIN uc
           uc0 == IF known THEN [uc EXCEPT ![u] = RemoveFirst(@, ws)] ELSE uc
           emptied == known /\ uc0[u] = << >>
           uc1 == IF emptied THEN DictDel(uc0, u) ELSE uc0
       IN  /\ user_connections' = [user_connections EXCEPT ![p] = uc1]
           /\ last' = Op("disconnect_user", p, ws, 0, u, << >>, << >>, FALSE)
           /\ IF emptied
              THEN /\ pc' = [pc EXCEPT ![ws] = "sleep"]
                   /\ UNCHANGED <<hv, close_code, dead, sent_count>>
              ELSE /\ Release(ws)
                   /\ sent_count' = [sent_count EXCEPT ![ws] = [m \in 1..MaxMsgs |-> 0]]
    /\ UNCHANGED <<rlvars, psvars, ebvars, rmvars, ilvars, storevars, active_connections, channel_users, session_starts, is_connected,
                   fallback_mode, inbox, workers, now, next_msg>>

\* a wake-up that takes the user for offline whatever was registered meanwhile
always_offline(uc, u) == TRUE

\* disconnect_user after the sleep: 'if user_id not in self.user_connections'
still_offline(uc, u) == u \notin DOMAIN uc

\* disconnect_user after the sleep: the debounce delay is over
DebounceWake(ws) ==
    /\ pc[ws] = "sleep"
    /\ LET p == hv[ws].proc
           u == hv[ws].user
           offline == still_offline(user_connections[p], u)
           raises == offline /\ is_available
           b == broadcast_to_all_users(user_connections[p], UserPresenceMsg(u, FALSE), 0)
       IN  IF offline /\ ~raises
           THEN /\ session_starts' = [session_starts EXCEPT ![p] = DictDel(@, u)]
                /\ LET st == clear_session_start(SessionStore, p, u)
                   IN  redis_sessions' = st.redis /\ memory_sessions' = st.memory
                /\ last' = Emitting(Op("debounce_wake", p, ws, 0, u, b.sends, b.published, FALSE),
                                     p, u, FALSE)
           ELSE /\ UNCHANGED <<session_starts, redis_sessions, memory_sessions>>
                /\ last' = Op("debounce_wake", p, ws, 0, u, << >>, << >>, raises)
    /\ Release(ws)
    /\ sent_count' = [sent_count EXCEPT ![ws] = [m \in 1..MaxMsgs |-> 0]]
    /\ UNCHANGED <<rlvars, psvars, ebvars, rmvars, ilvars, redis_online, active_connections, channel_users, user_connections, is_connected,
                   fallback_mode, inbox, workers, now, next_msg>>

\* ------------------------------------------------------------ forced closes
\* the handles kick_user / disconnect_user_sessions call close on
UserHandles(p, u) ==
    Range(DictGet(user_connections[p], u, << >>))
    \cup {e[1] : e \in {x \in UNION {Range(active_connections[p][c]) :
                                       c \in DOMAIN active_connections[p]} : x[2] = u}}

\* the forced closes are exercised for users that still hold a socket the server
\* has not closed
HasOpenHandle(p, u) == \E w \in UserHandles(p, u) : close_code[w] = 0

\* closing that gives up at the first handle whose close raises
CloseUntilRaise(hs, code) ==
    [w \in Sockets |->
        IF w \in hs /\ close_code[w] = 0 /\ \A v \in hs : v < w => close_code[v] = 0
        THEN code ELSE close_code[w]]

\* ws.close(code): the first close wins; closing a closed socket raises and the
\* exception is swallowed
CloseAll(hs, code) ==
    [w \in Sockets |-> IF w \in hs /\ close_code[w] = 0 THEN code ELSE close_code[w]]

\* WebSocketManager.kick_user
KickUser(p, u) ==
    /\ p \in workers
    /\ HasOpenHandle(p, u)
    /\ close_code' = CloseAll(UserHandles(p, u), CODE_KICK)
    /\ last' = Op("kick_user", p, 0, 0, u, << >>, << >>, FALSE)
    /\ UNCHANGED <<rlvars, psvars, ebvars, rmvars, ilvars, storevars, active_connections, channel_users, user_connections, session_starts,
                   is_connected, fallback_mode, inbox, workers, pc, hv, dead, now,
                   sent_count, next_msg>>

\* the presence broadcasts of step 3 of disconnect_user_sessions, channel by channel
RECURSIVE SessionsPresence(_, _, _, _)
SessionsPresence(ac, cu, u, chans) ==
    IF chans = {} THEN [cu |-> cu, sends |-> << >>]
    ELSE LET c == CHOOSE x \in chans : \A y \in chans : x <= y
         IN  IF u \in cu[c]
             THEN LET cu1 == [cu EXCEPT ![c] = @ \ {u}]
                      s == broadcast_to_channel(ac, c, PresenceMsg(get_online_count(cu1, c)), 0)
                      r == SessionsPresence(ac, cu1, u, chans \ {c})
                  IN  [cu |-> r.cu, sends |-> s \o r.sends]
             ELSE SessionsPresence(ac, cu, u, chans \ {c})

\* WebSocketManager.disconnect_user_sessions.  With the backend available step 4
\* calls redis_manager.srem, which RedisManager does not define: AttributeError
\* after step 3.
DisconnectUserSessions(p, u) ==
    /\ p \in workers
    /\ HasOpenHandle(p, u)
    /\ close_code' = CloseAll(UserHandles(p, u), CODE_LOGOUT)
    /\ LET uc1 == DictDel(user_connections[p], u)
           r == SessionsPresence(active_connections[p], channel_users[p], u,
                                 DOMAIN channel_users[p])
           b == broadcast_to_all_users(uc1, UserPresenceMsg(u, FALSE), 0)
       IN  /\ user_connections' = [user_connections EXCEPT ![p] = uc1]
           /\ channel_users' = [channel_users EXCEPT ![p] = r.cu]
           /\ IF is_available
              THEN /\ last' = Op("disconnect_user_sessions", p, 0, 0, u, r.sends, << >>, TRUE)
                   /\ UNCHANGED <<session_starts, redis_sessions, memory_sessions>>
              ELSE /\ last' = Emitting(Op("disconnect_user_sessions", p, 0, 0, u,
                                          r.sends \o b.sends, << >>, FALSE), p, u, FALSE)
                   /\ session_starts' = [session_starts EXCEPT ![p] = DictDel(@, u)]
                   /\ LET st == clear_session_start(SessionStore, p, u)
                      IN  redis_sessions' = st.redis /\ memory_sessions' = st.memory
    /\ UNCHANGED <<rlvars, psvars, ebvars, rmvars, ilvars, redis_online, active_connections, is_connected, fallback_mode, inbox, workers,
                   pc, hv, dead, now, sent_count, next_msg>>

\* disconnect_user_sessions, steps 1 and 2: the sockets found in the user's
\* lists are closed one by one; every close is a suspension point
DusClose(p, u) ==
    /\ p \in workers
    /\ HasOpenHandle(p, u)
    /\ <<p, u>> \notin dus_running
    /\ close_code' = CloseAll(UserHandles(p, u), CODE_LOGOUT)
    /\ dus_running' = dus_running \cup {<<p, u>>}
    /\ last' = Op("dus_close", p, 0, 0, u, << >>, << >>, FALSE)
    /\ UNCHANGED <<rlvars, psvars, ebvars, rmvars, storevars, active_connections, channel_users, user_connections,
                   session_starts, is_connected, fallback_mode, inbox, workers, pc, hv, dead,
                   now, sent_count, next_msg>>

\* disconnect_user_sessions, steps 3 to 5, run when the closes are done
DusCleanup(p, u) ==
    /\ <<p, u>> \in dus_running
    /\ dus_running' = dus_running \ {<<p, u>>}
    /\ LET uc1 == DictDel(user_connections[p], u)
           r == SessionsPresence(active_connections[p], channel_users[p], u,
                                 DOMAIN channel_users[p])
           b == broadcast_to_all_users(uc1, UserPresenceMsg(u, FALSE), 0)
       IN  /\ user_connections' = [user_connections EXCEPT ![p] = uc1]
           /\ channel_users' = [channel_users EXCEPT ![p] = r.cu]
           /\ IF is_available
              THEN /\ last' = Op("disconnect_user_sessions", p, 0, 0, u, r.sends, << >>, TRUE)
                   /\ UNCHANGED <<session_starts, redis_sessions, memory_sessions>>
              ELSE /\ last' = Emitting(Op("disconnect_user_sessions", p, 0, 0, u,
                                          r.sends \o b.sends, << >>, FALSE), p, u, FALSE)
                   /\ session_starts' = [session_starts EXCEPT ![p] = DictDel(@, u)]
                   /\ LET st == clear_session_start(SessionStore, p, u)
                      IN  redis_sessions' = st.redis /\ memory_sessions' = st.memory
    /\ UNCHANGED <<rlvars, psvars, ebvars, rmvars, redis_online, active_connections, is_connected, fallback_mode,
                   inbox, workers, pc, hv, close_code, dead, now, sent_count, next_msg>>

\* --------------------------------------------------- application broadcasts
BroadcastToChannel(p, c, exclude) ==
    /\ p \in workers
    /\ c \in DOMAIN active_connections[p]
    /\ last' = [Op("broadcast_to_channel", p, 0, c, 0,
                     broadcast_to_channel(active_connections[p], c, AppMsg(0), exclude),
                     << >>, FALSE) EXCEPT !.excl = exclude]
    /\ UNCHANGED <<rlvars, psvars, ebvars, rmvars, ilvars, storevars, active_connections, channel_users, user_connections, session_starts,
                   is_connected, fallback_mode, inbox, workers, pc, hv, close_code, dead,
                   now, sent_count, next_msg>>

BroadcastToUser(p, u) ==
    /\ p \in workers
    /\ u \in DOMAIN user_connections[p]
    /\ last' = Op("broadcast_to_user", p, 0, 0, u,
                  broadcast_to_user(user_connections[p], u, AppMsg(0)), << >>, FALSE)
    /\ UNCHANGED <<rlvars, psvars, ebvars, rmvars, ilvars, storevars, active_connections, channel_users, user_connections, session_starts,
                   is_connected, fallback_mode, inbox, workers, pc, hv, close_code, dead,
                   now, sent_count, next_msg>>

\* broadcast_to_all_users(AppMsg(id), exclude_user_id); id 0 is an untracked message
BroadcastToAllUsers(p, id, exclude) ==
    /\ p \in workers
    /\ is_available => InboxRoom
    /\ LET b == broadcast_to_all_users(user_connections[p], AppMsg(id), exclude)
       IN  /\ last' = [Op("broadcast_to_all_users", p, 0, 0, 0, b.sends, b.published, FALSE)
                       EXCEPT !.excl = exclude, !.id = id]
           /\ inbox' = IF b.published = << >> THEN inbox ELSE Publish(inbox, b.published[1])
           /\ sent_count' = CountSends(sent_count, b.sends)
    /\ next_msg' = IF id = 0 THEN next_msg ELSE next_msg + 1
    /\ UNCHANGED <<rlvars, psvars, ebvars, rmvars, ilvars, storevars, active_connections, channel_users, user_connections, session_starts,
                   is_connected, fallback_mode, workers, pc, hv, close_code, dead, now>>

\* the listener of worker p takes a ws:broadcast:all message and runs
\* _handle_redis_broadcast_all
Deliver(p) ==
    /\ p \in workers
    /\ inbox[p] # << >>
    /\ LET wire == Head(inbox[p])
           sends == local_broadcast_to_all_users(user_connections[p], PayloadOf(wire),
                                                 wire.exclude)
       IN  /\ last' = [Op("deliver", p, 0, 0, 0, sends, << >>, FALSE)
                       EXCEPT !.excl = wire.exclude, !.id = wire.val]
           /\ sent_count' = CountSends(sent_count, sends)
    /\ inbox' = [inbox EXCEPT ![p] = Tail(@)]
    /\ UNCHANGED <<rlvars, psvars, ebvars, rmvars, ilvars, storevars, active_connections, channel_users, user_connections, session_starts,
                   is_connected, fallback_mode, workers, pc, hv, close_code, dead, now,
                   next_msg>>

\* the peer of a registered connection vanishes; its handler has not noticed yet
Drop(ws) ==
    /\ pc[ws] \in {"chan", "user"}
    /\ ws \notin dead
    /\ close_code[ws] = 0
    /\ dead' = dead \cup {ws}
    /\ last' = Op("drop", hv[ws].proc, ws, 0, 0, << >>, << >>, FALSE)
    /\ UNCHANGED <<rlvars, psvars, ebvars, rmvars, ilvars, storevars, active_connections, channel_users, user_connections, session_starts,
                   is_connected, fallback_mode, inbox, workers, pc, hv, close_code, now,
                   sent_count, next_msg>>

\* ------------------------------------------- a second call on a registered handle
\* connect(ws, c, u, is_member) called again with a handle that is registered
\* in c.  connect has no check of its own: what happens is decided by
\* websocket.accept() on an accepted socket, which belongs to the framework;
\* it either raises before anything is changed or returns.
ConnectAgain(ws, accept_raises) ==
    /\ pc[ws] = "chan"
    /\ close_code[ws] = 0
    /\ LET p == hv[ws].proc
           c == hv[ws].chan
           u == hv[ws].user
       IN  /\ c \in DOMAIN active_connections[p]
           /\ Len(active_connections[p][c]) < MaxList
           /\ IF accept_raises
              THEN /\ UNCHANGED <<active_connections, channel_users>>
                   /\ last' = Op("connect_again", p, ws, c, u, << >>, << >>, TRUE)
              ELSE LET r == connect_state(active_connections[p], channel_users[p], ws, c, u,
                                          hv[ws].member)
                       msg == PresenceMsg(get_online_count(r.cu, c))
                   IN  /\ active_connections' = [active_connections EXCEPT ![p] = r.ac]
                       /\ channel_users' = [channel_users EXCEPT ![p] = r.cu]
                       /\ last' = Op("connect_again", p, ws, c, u,
                                     broadcast_to_channel(r.ac, c, msg, 0), << >>, FALSE)
    /\ UNCHANGED <<rlvars, psvars, ebvars, rmvars, ilvars, storevars, user_connections, session_starts, is_connected, fallback_mode,
                   inbox, workers, pc, hv, close_code, dead, now, sent_count, next_msg>>

\* connect_user(ws, u) called again with a handle that is registered under u:
\* the user is known, so the handle is appended without any presence event
ConnectUserAgain(ws, accept_raises) ==
    /\ pc[ws] = "user"
    /\ close_code[ws] = 0
    /\ LET p == hv[ws].proc
           u == hv[ws].user
       IN  /\ u \in DOMAIN user_connections[p]
           /\ Len(user_connections[p][u]) < MaxList
           /\ user_connections' = [user_connections EXCEPT ![p][u] =
                                      IF accept_raises THEN @ ELSE Append(@, ws)]
           /\ last' = Op("connect_user_again", p, ws, 0, u, << >>, << >>, accept_raises)
    /\ UNCHANGED <<rlvars, psvars, ebvars, rmvars, ilvars, storevars, active_connections, channel_users, session_starts, is_connected,
                   fallback_mode, inbox, workers, pc, hv, close_code, dead, now, sent_count,
                   next_msg>>

\* ----------------------------------------------------------- rate limiter
\* RedisManager.check_rate_limit with a 'count < max_requests' comparison
check_rate_limit_strict(kv, key, max_requests, window_seconds, t) ==
    LET live == key \in DOMAIN kv /\ t < kv[key].exp
        count == IF live THEN kv[key].val + 1 ELSE 1
        exp == IF count = 1 THEN t + window_seconds ELSE kv[key].exp
    IN  [kv |-> DictSet(kv, key, [val |-> count, exp |-> exp]),
         ok |-> count < max_requests]

\* RedisManager.check_rate_limit on the backend: INCR of rate:<key> (a key
\* past its expiry is absent, so it restarts at 1), EXPIRE when the count is
\* 1, allowed while count <= max_requests
check_rate_limit(kv, key, max_requests, window_seconds, t) ==
    LET live == key \in DOMAIN kv /\ t < kv[key].exp
        count == IF live THEN kv[key].val + 1 ELSE 1
        exp == IF count = 1 THEN t + window_seconds ELSE kv[key].exp
    IN  [kv |-> DictSet(kv, key, [val |-> count, exp |-> exp]),
         ok |-> count <= max_requests]

\* the in-memory branch of RateLimiter.check_limit: drop the entries that are
\* not newer than the cutoff, refuse when max_requests remain, else log now
check_limit_local(lst, max_requests, window_seconds, t) ==
    LET cutoff == t - window_seconds
        kept == SelectSeq(lst, LAMBDA x : x > cutoff)
    IN  IF Len(kept) >= max_requests
        THEN [lst |-> kept, ok |-> FALSE]
        ELSE [lst |-> Append(kept, t), ok |-> TRUE]

\* RateLimiter.check_limit(key, rl_max, rl_window) at time now
CheckLimit(key) ==
    /\ Len(DictGet(rl_log, key, << >>)) < MaxCalls
    /\ IF is_available
       THEN LET r == check_rate_limit(redis_kv, key, rl_max, rl_window, now)
            IN  /\ redis_kv' = r.kv
                /\ rl_log' = DictSet(rl_log, key,
                        Append(DictGet(rl_log, key, << >>), [t |-> now, ok |-> r.ok]))
                /\ UNCHANGED local_rate_limits
       ELSE LET r == check_limit_local(DictGet(local_rate_limits, key, << >>),
                                       rl_max, rl_window, now)
            IN  /\ local_rate_limits' = DictSet(local_rate_limits, key, r.lst)
                /\ rl_log' = DictSet(rl_log, key,
                        Append(DictGet(rl_log, key, << >>), [t |-> now, ok |-> r.ok]))
                /\ UNCHANGED redis_kv
    /\ UNCHANGED <<regvars, now, rl_max, rl_window, psvars, ebvars, rmvars>>

\* RateLimiter.check_limit in a process whose store reports is_available =
\* avail: the backend counter kv or the in-memory lists lrl
check_limit(avail, kv, lrl, key, max_requests, window_seconds, t) ==
    IF avail
    THEN LET r == check_rate_limit(kv, key, max_requests, window_seconds, t)
         IN  [kv |-> r.kv, lrl |-> lrl, ok |-> r.ok]
    ELSE LET r == check_limit_local(DictGet(lrl, key, << >>), max_requests, window_seconds, t)
         IN  [kv |-> kv, lrl |-> DictSet(lrl, key, r.lst), ok |-> r.ok]

\* the same check_limit(key, rl_max, rl_window) call at time now, made in a
\* process with a backend (its counters are redis_kv) and in a process in
\* fallback mode (its lists are local_rate_limits)
CheckLimitTwin(key) ==
    /\ Len(DictGet(rl_log, key, << >>)) < MaxCalls
    /\ LET a == check_limit(TRUE, redis_kv, local_rate_limits, key, rl_max, rl_window, now)
           b == check_limit(FALSE, redis_kv, local_rate_limits, key, rl_max, rl_window, now)
       IN  /\ redis_kv' = a.kv
           /\ local_rate_limits' = b.lrl
           /\ rl_log' = DictSet(rl_log, key,
                   Append(DictGet(rl_log, key, << >>),
                          [t |-> now, ok |-> a.ok, ok_local |-> b.ok]))
    /\ UNCHANGED <<regvars, now, rl_max, rl_window, psvars, ebvars, rmvars>>

\* one second passes
Tick ==
    /\ now < MaxTime
    /\ now' = now + 1
    /\ UNCHANGED <<regvars, rlvars, psvars, ebvars, rmvars>>

\* ------------------------------------------------------- fallback pub/sub
RECURSIVE TotalSubs(_, _)
TotalSubs(subs, ts) ==
    IF ts = {} THEN 0
    ELSE LET t == CHOOSE x \in ts : TRUE
         IN  Len(subs[t]) + TotalSubs(subs, ts \ {t})

\* RedisManager.subscribe: the callback is appended to the topic's list
subscribe(subs, t, cb) == DictSet(subs, t, Append(DictGet(subs, t, << >>), cb))

RECURSIVE AllCallbacks(_, _)
AllCallbacks(subs, ts) ==
    IF ts = {} THEN << >>
    ELSE LET t == CHOOSE x \in ts : \A y \in ts : x <= y
         IN  subs[t] \o AllCallbacks(subs, ts \ {t})

\* a publish that dispatches to the callbacks of every topic
publish_tasks_any(subs, t, m) ==
    LET cbs == AllCallbacks(subs, DOMAIN subs)
    IN  [i \in DOMAIN cbs |-> [cb |-> cbs[i], msg |-> m]]

\* the fallback branch of RedisManager.publish: one create_task per entry of
\* the topic's list, in list order
publish_tasks(subs, t, m) ==
    IF t \in DOMAIN subs
    THEN [i \in DOMAIN subs[t] |-> [cb |-> subs[t][i], msg |-> m]]
    ELSE << >>

Subscribe(t, cb) ==
    /\ fallback_mode
    /\ TotalSubs(local_subscribers, DOMAIN local_subscribers) < MaxSubs
    /\ local_subscribers' = subscribe(local_subscribers, t, cb)
    /\ ps_calls' = [ps_calls EXCEPT ![t][cb] = @ + 1]
    /\ UNCHANGED <<wsvars, rlvars, ebvars, rmvars, ps_tasks, ps_invoked, ps_pub>>

PublishFallback(t) ==
    LET m == Cardinality(DOMAIN ps_pub) + 1
    IN  /\ fallback_mode
        /\ m <= MaxPub
        /\ ps_tasks' = ps_tasks \o publish_tasks(local_subscribers, t, m)
        /\ ps_pub' = DictSet(ps_pub, m, [topic |-> t, calls |-> ps_calls[t]])
        /\ UNCHANGED <<wsvars, rlvars, ebvars, rmvars, local_subscribers, ps_invoked, ps_calls>>

\* the event loop runs the oldest task: the callback is invoked with the message
RunCallback ==
    /\ ps_tasks # << >>
    /\ ps_invoked' = [ps_invoked EXCEPT ![Head(ps_tasks).cb][Head(ps_tasks).msg] = @ + 1]
    /\ ps_tasks' = Tail(ps_tasks)
    /\ UNCHANGED <<wsvars, rlvars, ebvars, rmvars, local_subscribers, ps_calls, ps_pub>>

\* ------------------------------------------------- RedisManager key/value
\* The store of one process: mc is _memory_cache, me is _memory_expiry, kv is
\* what the backend holds (an entry with exp = -1 has no time to live; one
\* whose exp has been reached is gone).  Each operation gets the time t, the
\* mode fb (_fallback_mode) and bad: the backend call raises (no client, or
\* the backend fails).
Res(mc, me, kv, ret, path) == [mc |-> mc, me |-> me, kv |-> kv, ret |-> ret, path |-> path]

Lookup(d, key) == IF key \in DOMAIN d THEN <<d[key]>> ELSE << >>

BackendLive(kv, key, t) == key \in DOMAIN kv /\ (kv[key].exp = -1 \/ t < kv[key].exp)

\* a cleanup that removes nothing
cleanup_never(mc, me, t) == [mc |-> mc, me |-> me]

\* _cleanup_expired: the keys whose expiry is before now leave both dicts
cleanup_expired(mc, me, t) ==
    LET expired == {k \in DOMAIN me : me[k] < t}
    IN  [mc |-> [k \in (DOMAIN mc) \ expired |-> mc[k]],
         me |-> [k \in (DOMAIN me) \ expired |-> me[k]]]

get(st, key, t, fb, bad) ==
    IF fb
    THEN LET c == cleanup_expired(st.mc, st.me, t)
         IN  Res(c.mc, c.me, st.kv, Lookup(c.mc, key), "memory")
    ELSE IF ~bad
    THEN Res(st.mc, st.me, st.kv,
             IF BackendLive(st.kv, key, t) THEN <<st.kv[key].val>> ELSE << >>, "backend")
    ELSE Res(st.mc, st.me, st.kv, Lookup(st.mc, key), "memory")

\* set(key, value, ex): ex = 0 stands for ex=None ('if ex:' treats them alike)
set(st, key, value, ex, t, fb, bad) ==
    IF fb \/ bad
    THEN Res(DictSet(st.mc, key, value),
             IF ex # 0 THEN DictSet(st.me, key, t + ex) ELSE st.me, st.kv, << >>, "memory")
    ELSE Res(st.mc, st.me,
             DictSet(st.kv, key, [val |-> value, exp |-> IF ex # 0 THEN t + ex ELSE -1]),
             << >>, "backend")

delete(st, key, t, fb, bad) ==
    IF fb THEN Res(DictDel(st.mc, key), DictDel(st.me, key), st.kv, << >>, "memory")
    ELSE IF ~bad THEN Res(st.mc, st.me, DictDel(st.kv, key), << >>, "backend")
    ELSE Res(DictDel(st.mc, key), st.me, st.kv, << >>, "memory")

incr(st, key, t, fb, bad) ==
    IF fb
    THEN LET c == cleanup_expired(st.mc, st.me, t)
             val == DictGet(c.mc, key, 0) + 1
         IN  Res(DictSet(c.mc, key, val), c.me, st.kv, <<val>>, "memory")
    ELSE IF ~bad
    THEN LET e == IF BackendLive(st.kv, key, t)
                  THEN [val |-> st.kv[key].val + 1, exp |-> st.kv[key].exp]
                  ELSE [val |-> 1, exp |-> -1]
         IN  Res(st.mc, st.me, DictSet(st.kv, key, e), <<e.val>>, "backend")
    ELSE LET val == DictGet(st.mc, key, 0) + 1
         IN  Res(DictSet(st.mc, key, val), st.me, st.kv, <<val>>, "memory")

\* an expire that gives up when the backend call raises
expire_backend_only(st, key, seconds, t, fb, bad) ==
    IF fb THEN Res(st.mc, DictSet(st.me, key, t + seconds), st.kv, << >>, "memory")
    ELSE IF bad THEN Res(st.mc, st.me, st.kv, << >>, "none")
    ELSE Res(st.mc, st.me,
             IF BackendLive(st.kv, key, t)
             THEN [st.kv EXCEPT ![key].exp = t + seconds] ELSE st.kv,
             << >>, "backend")

expire(st, key, seconds, t, fb, bad) ==
    IF fb \/ bad
    THEN Res(st.mc, DictSet(st.me, key, t + seconds), st.kv, << >>, "memory")
    ELSE Res(st.mc, st.me,
             IF BackendLive(st.kv, key, t)
             THEN [st.kv EXCEPT ![key].exp = t + seconds] ELSE st.kv,
             << >>, "backend")

ttl(st, key, t, fb, bad) ==
    IF fb
    THEN Res(st.mc, st.me, st.kv,
             IF key \in DOMAIN st.me
             THEN <<IF st.me[key] - t > 0 THEN st.me[key] - t ELSE 0>> ELSE <<-1>>, "memory")
    ELSE IF ~bad
    THEN Res(st.mc, st.me, st.kv,
             IF ~BackendLive(st.kv, key, t) THEN <<-2>>
             ELSE IF st.kv[key].exp = -1 THEN <<-1>> ELSE <<st.kv[key].exp - t>>, "backend")
    ELSE Res(st.mc, st.me, st.kv, <<-1>>, "none")

Store == [mc |-> memory_cache, me |-> memory_expiry, kv |-> redis_kv]

\* the backend call of this operation raises: _redis is None, or the backend fails
Bad(fails) == ~rm_redis \/ fails

\* a key/value call returns r: the store takes r's state, the call is recorded
Returns(name, key, fails, r) ==
    /\ fallback_mode => ~fails
    /\ memory_cache' = r.mc
    /\ memory_expiry' = r.me
    /\ redis_kv' = r.kv
    /\ rm_last' = [op |-> name, key |-> key, t |-> now, ret |-> r.ret, raised |-> FALSE,
                   fails |-> ~fallback_mode /\ Bad(fails), path |-> r.path,
                   dropped |-> (DOMAIN memory_expiry) \ DOMAIN r.me]
    /\ UNCHANGED <<wsvars, psvars, ebvars, local_rate_limits, rl_max, rl_window, rl_log,
                   rm_redis, rm_pubsub>>

Get(key, fails) ==
    /\ Returns("get", key, fails, get(Store, key, now, fallback_mode, Bad(fails)))

Set(key, value, ex, fails) ==
    /\ Returns("set", key, fails, set(Store, key, value, ex, now, fallback_mode, Bad(fails)))

Delete(key, fails) ==
    /\ Returns("delete", key, fails, delete(Store, key, now, fallback_mode, Bad(fails)))

Incr(key, fails) ==
    /\ DictGet(memory_cache, key, 0) < MaxVal
    /\ key \in DOMAIN redis_kv => redis_kv[key].val < MaxVal
    /\ Returns("incr", key, fails, incr(Store, key, now, fallback_mode, Bad(fails)))

Expire(key, seconds, fails) ==
    /\ Returns("expire", key, fails, expire(Store, key, seconds, now, fallback_mode, Bad(fails)))

Ttl(key, fails) ==
    /\ Returns("ttl", key, fails, ttl(Store, key, now, fallback_mode, Bad(fails)))

\* RedisManager.check_rate_limit(key, rl_max, rl_window) at time now: incr, then
\* expire when the count is 1; f_incr / f_expire: that backend call fails
CheckRateLimit(key, f_incr, f_expire) ==
    /\ Len(DictGet(rl_log, key, << >>)) < MaxCalls
    /\ DictGet(memory_cache, key, 0) < MaxVal
    /\ key \in DOMAIN redis_kv => redis_kv[key].val < MaxVal
    /\ fallback_mode => ~f_incr /\ ~f_expire
    /\ LET a == incr(Store, key, now, fallback_mode, Bad(f_incr))
           count == a.ret[1]
           b == IF count = 1
                THEN expire([mc |-> a.mc, me |-> a.me, kv |-> a.kv], key, rl_window, now,
                            fallback_mode, Bad(f_expire))
                ELSE a
       IN  /\ count # 1 => ~f_expire
           /\ memory_cache' = b.mc
           /\ memory_expiry' = b.me
           /\ redis_kv' = b.kv
           /\ rm_last' = [op |-> "check_rate_limit", key |-> key, t |-> now,
                          ret |-> <<count <= rl_max>>, raised |-> FALSE,
                          fails |-> ~fallback_mode /\ (Bad(f_incr) \/ (count = 1 /\ Bad(f_expire))),
                          path |-> IF a.path = b.path THEN a.path ELSE "mixed",
                          dropped |-> (DOMAIN memory_expiry) \ DOMAIN b.me]
           /\ rl_log' = DictSet(rl_log, key,
                   Append(DictGet(rl_log, key, << >>), [t |-> now, ok |-> count <= rl_max]))
    /\ UNCHANGED <<wsvars, psvars, ebvars, local_rate_limits, rl_max, rl_window, rm_redis, rm_pubsub>>

\* ------------------------------------------------------ RedisManager.connect
\* a connect that takes the created client for a connection without the ping
connect_unpinged(st, url, created, ping_ok) ==
    IF ~url THEN [st EXCEPT !.fallback = TRUE]
    ELSE IF created THEN [redis |-> TRUE, connected |-> TRUE, fallback |-> FALSE]
    ELSE [st EXCEPT !.fallback = TRUE, !.redis = FALSE]

\* connect(redis_url): url = a url was given; created = import and from_url
\* succeeded; ping_ok = the ping succeeded
connect(st, url, created, ping_ok) ==
    IF ~url THEN [st EXCEPT !.fallback = TRUE]
    ELSE IF created /\ ping_ok THEN [redis |-> TRUE, connected |-> TRUE, fallback |-> FALSE]
    ELSE [st EXCEPT !.fallback = TRUE, !.redis = FALSE]

RmConnect(url, created, ping_ok) ==
    /\ ~url => created /\ ping_ok
    /\ ~created => ~ping_ok
    /\ LET st == connect([redis |-> rm_redis, connected |-> is_connected,
                          fallback |-> fallback_mode], url, created, ping_ok)
       IN  /\ rm_redis' = st.redis
           /\ is_connected' = st.connected
           /\ fallback_mode' = st.fallback
    /\ rm_last' = [NoRm EXCEPT !.op = "connect", !.t = now,
                               !.fails = url /\ ~(created /\ ping_ok),
                               !.path = IF url /\ created /\ ping_ok THEN "backend" ELSE "memory"]
    /\ UNCHANGED <<storevars, ilvars, active_connections, channel_users, user_connections,
                   session_starts, inbox, workers, pc, hv, close_code, dead, sent_count,
                   next_msg, last, now, rlvars, psvars, ebvars, rm_pubsub, memory_cache, memory_expiry>>

\* --------------------------------------------------- RedisManager hash calls
\* the hash "session_starts": h.redis in the backend, h.memory in _memory_cache
hset(h, field, value, fb, bad) ==
    IF fb \/ bad
    THEN [redis |-> h.redis, memory |-> DictSet(h.memory, field, value), ret |-> << >>,
          path |-> "memory"]
    ELSE [redis |-> DictSet(h.redis, field, value), memory |-> h.memory, ret |-> << >>,
          path |-> "backend"]

hget(h, field, fb, bad) ==
    IF fb \/ bad
    THEN [redis |-> h.redis, memory |-> h.memory, ret |-> Lookup(h.memory, field),
          path |-> "memory"]
    ELSE [redis |-> h.redis, memory |-> h.memory, ret |-> Lookup(h.redis, field),
          path |-> "backend"]

hdel(h, field, fb, bad) ==
    IF fb \/ bad
    THEN [redis |-> h.redis, memory |-> DictDel(h.memory, field), ret |-> << >>,
          path |-> "memory"]
    ELSE [redis |-> DictDel(h.redis, field), memory |-> h.memory, ret |-> << >>,
          path |-> "backend"]

hgetall(h, fb, bad) ==
    IF fb \/ bad
    THEN [redis |-> h.redis, memory |-> h.memory, ret |-> <<h.memory>>, path |-> "memory"]
    ELSE [redis |-> h.redis, memory |-> h.memory, ret |-> <<h.redis>>, path |-> "backend"]

Hash == [redis |-> redis_sessions, memory |-> memory_sessions[1]]

\* a hash call returns r
ReturnsHash(name, field, fails, r) ==
    /\ fallback_mode => ~fails
    /\ redis_sessions' = r.redis
    /\ memory_sessions' = [memory_sessions EXCEPT ![1] = r.memory]
    /\ rm_last' = [op |-> name, key |-> field, t |-> now, ret |-> r.ret, raised |-> FALSE,
                   fails |-> ~fallback_mode /\ Bad(fails), path |-> r.path, dropped |-> {}]
    /\ UNCHANGED <<redis_online, ilvars, active_connections, channel_users, user_connections,
                   session_starts, is_connected, fallback_mode, inbox, workers, pc, hv,
                   close_code, dead, sent_count, next_msg, last, now, rlvars, psvars, ebvars,
                   rm_redis, rm_pubsub, memory_cache, memory_expiry>>

Hset(field, fails) ==
    /\ ReturnsHash("hset", field, fails, hset(Hash, field, now, fallback_mode, Bad(fails)))

Hget(field, fails) ==
    /\ ReturnsHash("hget", field, fails, hget(Hash, field, fallback_mode, Bad(fails)))

Hdel(field, fails) ==
    /\ ReturnsHash("hdel", field, fails, hdel(Hash, field, fallback_mode, Bad(fails)))

Hgetall(fails) ==
    /\ ReturnsHash("hgetall", 0, fails, hgetall(Hash, fallback_mode, Bad(fails)))

\* ------------------------------------------------ RedisManager pub/sub calls
\* a pub/sub call is recorded; the key/value and hash stores are left alone
PubSubCall(name, t, raised, failed, path) ==
    /\ rm_last' = [NoRm EXCEPT !.op = name, !.key = t, !.t = now, !.raised = raised,
                               !.fails = failed, !.path = path]
    /\ UNCHANGED <<wsvars, rlvars, ebvars, ps_invoked, ps_pub, rm_redis, memory_cache, memory_expiry>>

\* publish(channel, message): json.dumps(message) comes first, outside any try;
\* then the local dispatch (fallback mode, or the backend publish raised) or
\* the backend publish
RmPublish(t, serializable, fails) ==
    /\ fallback_mode => ~fails
    /\ ~serializable => ~fails
    /\ Len(ps_tasks) + Len(DictGet(local_subscribers, t, << >>)) <= MaxSubs
    /\ IF ~serializable
       THEN /\ PubSubCall("publish", t, TRUE, FALSE, "none")
            /\ UNCHANGED ps_tasks
       ELSE IF fallback_mode \/ Bad(fails)
       THEN /\ PubSubCall("publish", t, FALSE, ~fallback_mode, "memory")
            /\ ps_tasks' = ps_tasks \o publish_tasks(local_subscribers, t, 1)
       ELSE /\ PubSubCall("publish", t, FALSE, FALSE, "backend")
            /\ UNCHANGED ps_tasks
    /\ UNCHANGED <<local_subscribers, ps_calls, rm_pubsub>>

\* subscribe(channel, callback): in fallback mode the callback is appended;
\* otherwise self._redis.pubsub() is called, outside any try, when there is no
\* pubsub object yet, and the callback is appended when the backend subscribe
\* succeeded
RmSubscribe(t, cb, fails) ==
    /\ fallback_mode => ~fails
    /\ TotalSubs(local_subscribers, DOMAIN local_subscribers) < MaxSubs
    /\ IF fallback_mode
       THEN /\ PubSubCall("subscribe", t, FALSE, FALSE, "memory")
            /\ local_subscribers' = subscribe(local_subscribers, t, cb)
            /\ ps_calls' = [ps_calls EXCEPT ![t][cb] = @ + 1]
            /\ UNCHANGED rm_pubsub
       ELSE IF ~rm_pubsub /\ ~rm_redis
       THEN /\ ~fails
            /\ PubSubCall("subscribe", t, TRUE, FALSE, "none")
            /\ UNCHANGED <<local_subscribers, ps_calls, rm_pubsub>>
       ELSE /\ rm_pubsub' = TRUE
            /\ IF fails
               THEN /\ PubSubCall("subscribe", t, FALSE, TRUE, "none")
                    /\ UNCHANGED <<local_subscribers, ps_calls>>
               ELSE /\ PubSubCall("subscribe", t, FALSE, FALSE, "backend")
                    /\ local_subscribers' = subscribe(local_subscribers, t, cb)
                    /\ ps_calls' = [ps_calls EXCEPT ![t][cb] = @ + 1]
    /\ UNCHANGED ps_tasks

\* start_listener(): nothing in fallback mode or without a pubsub object;
\* otherwise the listen() task is created
StartListener ==
    /\ PubSubCall("start_listener", 0, FALSE, FALSE,
                  IF fallback_mode \/ ~rm_pubsub THEN "none" ELSE "backend")
    /\ UNCHANGED <<local_subscribers, ps_tasks, ps_calls, rm_pubsub>>

\* ------------------------------------------------- the endpoints' checks
\* a check that lets a disabled or unknown user through
user_precheck_lax(token_ok, sub_ok, user_ok, existing) ==
    token_ok /\ sub_ok /\ existing < MAX_USER_CONNECTIONS

\* user_websocket_endpoint, step 1: the token decodes, it has a subject, the
\* user exists and is active, and the user holds fewer than 5 connections
user_precheck(token_ok, sub_ok, user_ok, existing) ==
    token_ok /\ sub_ok /\ user_ok /\ existing < MAX_USER_CONNECTIONS

\* websocket_endpoint before manager.connect: token, subject, the channel
\* exists, membership (required when the channel is direct or private:
\* restricted), the user exists and is active
channel_precheck(token_ok, sub_ok, channel_ok, is_member, restricted, user_ok) ==
    token_ok /\ sub_ok /\ channel_ok /\ (is_member \/ ~restricted) /\ user_ok

\* user_websocket_endpoint up to 'await websocket.accept()' in connect_user:
\* the checks; the endpoint returns when one fails, else it goes on to
\* register (the handle waits in "accepted")
UserCheck(p, ws, u, token_ok, sub_ok, user_ok) ==
    /\ p \in workers
    /\ NewHandle(ws)
    /\ IF user_precheck(token_ok, sub_ok, user_ok,
                        Len(DictGet(user_connections[p], u, << >>)))
       THEN /\ pc' = [pc EXCEPT ![ws] = "accepted"]
            /\ hv' = [hv EXCEPT ![ws] = [proc |-> p, chan |-> 0, user |-> u,
                                         member |-> FALSE, since |-> next_msg]]
       ELSE UNCHANGED <<pc, hv>>
    /\ last' = [Op("user_check", p, ws, 0, u, << >>, << >>, FALSE)
                EXCEPT !.ident = token_ok /\ sub_ok /\ user_ok]
    /\ UNCHANGED <<rlvars, psvars, ebvars, rmvars, ilvars, storevars, active_connections,
                   channel_users, user_connections, session_starts, is_connected,
                   fallback_mode, inbox, workers, close_code, dead, now, sent_count, next_msg>>

\* connect_user after accept().  Without a backend the rest of the
\* registration runs without a suspension; with a backend the first connection
\* of a user suspends in set_session_start, after the empty list and the local
\* session start were written (the handle waits in "storing")
CuRegister(ws) ==
    /\ pc[ws] = "accepted"
    /\ LET p == hv[ws].proc
           u == hv[ws].user
           uc == user_connections[p]
           is_first_connection == u \notin DOMAIN uc
           uc0 == IF is_first_connection THEN DictSet(uc, u, << >>) ELSE uc
           uc1 == [uc0 EXCEPT ![u] = Append(@, ws)]
           b == broadcast_to_all_users(uc1, UserPresenceMsg(u, TRUE), 0)
       IN  IF ~is_first_connection
           THEN /\ user_connections' = [user_connections EXCEPT ![p] = uc1]
                /\ pc' = [pc EXCEPT ![ws] = "user"]
                /\ last' = Op("connect_user", p, ws, 0, u, << >>, << >>, FALSE)
                /\ UNCHANGED <<session_starts, redis_sessions, memory_sessions>>
           ELSE IF ~is_available
           THEN /\ user_connections' = [user_connections EXCEPT ![p] = uc1]
                /\ session_starts' = [session_starts EXCEPT ![p] = DictSet(@, u, now)]
                /\ LET st == set_session_start(SessionStore, p, u, now)
                   IN  redis_sessions' = st.redis /\ memory_sessions' = st.memory
                /\ pc' = [pc EXCEPT ![ws] = "user"]
                /\ last' = Emitting(Op("connect_user", p, ws, 0, u, b.sends, b.published, FALSE),
                                     p, u, TRUE)
           ELSE /\ user_connections' = [user_connections EXCEPT ![p] = uc0]
                /\ session_starts' = [session_starts EXCEPT ![p] = DictSet(@, u, now)]
                /\ pc' = [pc EXCEPT ![ws] = "storing"]
                /\ last' = Op("connect_user_first", p, ws, 0, u, << >>, << >>, FALSE)
                /\ UNCHANGED <<redis_sessions, memory_sessions>>
    /\ UNCHANGED <<rlvars, psvars, ebvars, rmvars, ilvars, redis_online, active_connections,
                   channel_users, is_connected, fallback_mode, inbox, workers, hv,
                   close_code, dead, now, sent_count, next_msg>>

\* connect_user resumes after set_session_start: the append (KeyError when the
\* user's list was deleted meanwhile), then redis_manager.sadd, which
\* RedisManager does not define; the endpoint closes with 1011 and returns
CuStored(ws) ==
    /\ pc[ws] = "storing"
    /\ LET p == hv[ws].proc
           u == hv[ws].user
           st == set_session_start(SessionStore, p, u, now)
       IN  /\ redis_sessions' = st.redis
           /\ memory_sessions' = st.memory
           /\ user_connections' =
                 IF u \in DOMAIN user_connections[p]
                 THEN [user_connections EXCEPT ![p][u] = Append(@, ws)]
                 ELSE user_connections
           /\ last' = Op("connect_user", p, ws, 0, u, << >>, << >>, TRUE)
    /\ pc' = [pc EXCEPT ![ws] = "gone"]
    /\ close_code' = [close_code EXCEPT ![ws] = CODE_INTERNAL]
    /\ UNCHANGED <<rlvars, psvars, ebvars, rmvars, ilvars, redis_online, active_connections,
                   channel_users, session_starts, is_connected, fallback_mode, inbox,
                   workers, hv, dead, now, sent_count, next_msg>>

\* websocket_endpoint up to and including manager.connect: a failed check
\* closes the socket with 1008 before it was accepted and returns
ChannelEndpoint(p, ws, c, u, token_ok, sub_ok, channel_ok, is_member, restricted, user_ok) ==
    IF channel_precheck(token_ok, sub_ok, channel_ok, is_member, restricted, user_ok)
    THEN Connect(p, ws, c, u, is_member)
    ELSE /\ p \in workers
         /\ NewHandle(ws)
         /\ last' = [Op("channel_check", p, ws, c, u, << >>, << >>, FALSE)
                     EXCEPT !.ident = FALSE]
         /\ UNCHANGED <<rlvars, psvars, ebvars, rmvars, ilvars, storevars, active_connections,
                        channel_users, user_connections, session_starts, is_connected,
                        fallback_mode, inbox, workers, pc, hv, close_code, dead, now,
                        sent_count, next_msg>>

\* ------------------------------------------ WebSocketManager.graceful_shutdown
\* a shutdown that closes the user-level connections only
ShutdownTargetsUserOnly(uc, ac) == UNION {Range(uc[u]) : u \in DOMAIN uc}

\* the sockets graceful_shutdown builds a _safe_close task for
ShutdownTargets(uc, ac) ==
    (UNION {Range(uc[u]) : u \in DOMAIN uc})
        \cup UNION {{ac[c][i][1] : i \in DOMAIN ac[c]} : c \in DOMAIN ac}

\* graceful_shutdown: one _safe_close(ws, 1001) per registered connection,
\* gathered; a close that raises is swallowed; the registries are not touched
GracefulShutdown(p) ==
    /\ p \in workers
    /\ close_code' = CloseAll(ShutdownTargets(user_connections[p], active_connections[p]),
                              CODE_SHUTDOWN)
    /\ last' = Op("graceful_shutdown", p, 0, 0, 0, << >>, << >>, FALSE)
    /\ UNCHANGED <<rlvars, psvars, ebvars, rmvars, ilvars, storevars, active_connections,
                   channel_users, user_connections, session_starts, is_connected,
                   fallback_mode, inbox, workers, pc, hv, dead, now, sent_count, next_msg>>

\* ---------------------------------------------------------------- EventBus
\* (app/core/events.py)

EventTypes == 1..NEventTypes

EvHandlers == 1..NEvHandlers

\* subscribe: creates the list of the type when it is missing and appends the
\* handler unless the list already holds it
bus_subscribe(hd, t, h) ==
    LET cur == DictGet(hd, t, << >>)
    IN  DictSet(hd, t, IF h \in Range(cur) THEN cur ELSE Append(cur, h))

\* unsubscribe: list.remove(handler) when the type has a list that holds it
bus_unsubscribe(hd, t, h) ==
    IF t \in DOMAIN hd /\ h \in Range(hd[t]) THEN DictSet(hd, t, RemoveFirst(hd[t], h)) ELSE hd

\* the list that publish iterates: the list object of the type itself (not a
\* copy), or a fresh empty list when the type has no entry
bus_live(hd, t) == DictGet(hd, t, << >>)

\* subscribe holds the lock over a body without a suspension point, so the call
\* is one step; while a publish of that type is suspended in a handler, the
\* list it iterates is the one changed here
EventSubscribe(t, h) ==
    /\ eb_handlers' = bus_subscribe(eb_handlers, t, h)
    /\ eb_run' = IF eb_run.active /\ eb_run.etype = t /\ h \notin Range(bus_live(eb_handlers, t))
                 THEN [eb_run EXCEPT !.added = @ \cup {h}]
                 ELSE eb_run
    /\ UNCHANGED <<wsvars, rlvars, psvars, rmvars>>

EventUnsubscribe(t, h) ==
    /\ eb_handlers' = bus_unsubscribe(eb_handlers, t, h)
    /\ eb_run' = IF eb_run.active /\ eb_run.etype = t /\ h \in Range(bus_live(eb_handlers, t))
                 THEN [eb_run EXCEPT !.removed = @ \cup {h}]
                 ELSE eb_run
    /\ UNCHANGED <<wsvars, rlvars, psvars, rmvars>>

\* publish up to its first suspension: takes the list of the type and calls
\* its first handler; with an empty list the call returns at once
EventPublish(t) ==
    /\ ~eb_run.active
    /\ LET hs == bus_live(eb_handlers, t)
       IN  eb_run' = IF hs = << >>
                     THEN [NoRun EXCEPT !.etype = t]
                     ELSE [active |-> TRUE, etype |-> t, idx |-> 1, called |-> <<hs[1]>>,
                           start |-> hs, removed |-> {}, added |-> {}]
    /\ UNCHANGED <<eb_handlers, wsvars, rlvars, psvars, rmvars>>

\* the awaited handler returns, or raises an Exception that publish catches
\* and prints: the list iterator moves to the next position of the list as it
\* is now, and publish returns when that position is past the end
HandlerReturns ==
    /\ eb_run.active
    /\ LET hs == bus_live(eb_handlers, eb_run.etype)
           i  == eb_run.idx + 1
       IN  eb_run' = IF i <= Len(hs)
                     THEN [eb_run EXCEPT !.idx = i, !.called = Append(@, hs[i])]
                     ELSE [eb_run EXCEPT !.active = FALSE]
    /\ UNCHANGED <<eb_handlers, wsvars, rlvars, psvars, rmvars>>

\* ------------------------------- disconnect_user after the sleep, in its steps
\* the check 'if user_id not in self.user_connections' and, for a user found
\* offline, the broadcast.  With the backend available srem raises (see
\* DebounceWake).  Without it the local broadcast awaits asyncio.gather when
\* there is a socket to send to, and the coroutine is suspended there before
\* it clears the session start; with nothing to send it goes on at once.
WakeCheck(ws) ==
    /\ pc[ws] = "sleep"
    /\ LET p == hv[ws].proc
           u == hv[ws].user
           offline == still_offline(user_connections[p], u)
           raises == offline /\ is_available
           b == broadcast_to_all_users(user_connections[p], UserPresenceMsg(u, FALSE), 0)
       IN  IF offline /\ ~raises /\ b.sends # << >>
           THEN /\ pc' = [pc EXCEPT ![ws] = "clearing"]
                /\ last' = Emitting(Op("debounce_wake", p, ws, 0, u, b.sends, b.published, FALSE),
                                     p, u, FALSE)
                /\ UNCHANGED <<hv, close_code, dead, sent_count, session_starts,
                               redis_sessions, memory_sessions>>
           ELSE /\ IF offline /\ ~raises
                   THEN /\ session_starts' = [session_starts EXCEPT ![p] = DictDel(@, u)]
                        /\ LET st == clear_session_start(SessionStore, p, u)
                           IN  redis_sessions' = st.redis /\ memory_sessions' = st.memory
                   ELSE UNCHANGED <<session_starts, redis_sessions, memory_sessions>>
                /\ last' = IF offline /\ ~raises
                           THEN Emitting(Op("debounce_wake", p, ws, 0, u, << >>, << >>, FALSE),
                                         p, u, FALSE)
                           ELSE Op("debounce_wake", p, ws, 0, u, << >>, << >>, raises)
                /\ Release(ws)
                /\ sent_count' = [sent_count EXCEPT ![ws] = [m \in 1..MaxMsgs |-> 0]]
    /\ UNCHANGED <<rlvars, psvars, ebvars, rmvars, ilvars, redis_online, active_connections, channel_users,
                   user_connections, is_connected, fallback_mode, inbox, workers, now, next_msg>>

\* the broadcast is done: '_local_session_starts.pop(user_id, None)' and
\* 'await redis_manager.clear_session_start(user_id)', without a second look
\* at user_connections
WakeClear(ws) ==
    /\ pc[ws] = "clearing"
    /\ LET p == hv[ws].proc
           u == hv[ws].user
       IN  /\ session_starts' = [session_starts EXCEPT ![p] = DictDel(@, u)]
           /\ LET st == clear_session_start(SessionStore, p, u)
              IN  redis_sessions' = st.redis /\ memory_sessions' = st.memory
           /\ last' = Op("debounce_clear", p, ws, 0, u, << >>, << >>, FALSE)
    /\ Release(ws)
    /\ sent_count' = [sent_count EXCEPT ![ws] = [m \in 1..MaxMsgs |-> 0]]
    /\ UNCHANGED <<rlvars, psvars, ebvars, rmvars, ilvars, redis_online, active_connections, channel_users,
                   user_connections, is_connected, fallback_mode, inbox, workers, now, next_msg>>

\* ------------------------------------ websocket_endpoint: a message of a non-member
ErrorMsg == [type |-> "error", user |-> 0, val |-> 0]

\* websocket_endpoint, receive loop: a message (not a typing indicator) arrived
\* on ws and the membership re-check finds that the sender is not a member now.
\* Public channel: an error is sent to the socket and the loop goes on.
\* Private channel or direct conversation: the endpoint closes the socket with
\* 1008 and returns from inside the try block; neither except clause runs, and
\* manager.disconnect is not called.
NotMemberMessage(ws, restricted) ==
    /\ pc[ws] = "chan"
    /\ ws \notin dead
    /\ close_code[ws] = 0
    /\ LET p == hv[ws].proc
           c == hv[ws].chan
           u == hv[ws].user
       IN  IF restricted
           THEN /\ close_code' = [close_code EXCEPT ![ws] = CODE_POLICY]
                /\ pc' = [pc EXCEPT ![ws] = "gone"]
                /\ last' = Op("no_longer_member", p, ws, c, u, << >>, << >>, FALSE)
           ELSE /\ last' = Op("join_required", p, ws, c, u, <<SafeSend(ws, ErrorMsg)>>,
                              << >>, FALSE)
                /\ UNCHANGED <<close_code, pc>>
    /\ UNCHANGED <<rlvars, psvars, ebvars, rmvars, ilvars, storevars, active_connections,
                   channel_users, user_connections, session_starts, is_connected,
                   fallback_mode, inbox, workers, hv, dead, now, sent_count, next_msg>>

\* ------------------------------------------------ WebSocketManager.init_redis
\* a further worker process starts: redis_manager.connect, and with the backend
\* available 'redis_manager.delete("ws:online_users")', the two subscriptions
\* and the listener, after which the worker receives what is published
InitRedis(p) ==
    /\ p \in Procs \ workers
    /\ workers' = workers \cup {p}
    /\ redis_online' = IF is_available THEN {} ELSE redis_online
    /\ last' = Op("init_redis", p, 0, 0, 0, << >>, << >>, FALSE)
    /\ UNCHANGED <<rlvars, psvars, ebvars, rmvars, ilvars, redis_sessions, memory_sessions,
                   active_connections, channel_users, user_connections, session_starts,
                   is_connected, fallback_mode, inbox, pc, hv, close_code, dead, now,
                   sent_count, next_msg>>

\* ------------------------------------------------------- specifications
\* one worker: the registry under connects, disconnects and forced disconnects
Next ==
    \/ \E ws \in Handles, c \in RegChannels, u \in Users, m \in BOOLEAN : Connect(1, ws, c, u, m)
    \/ \E ws \in Handles : Disconnect(ws)
    \/ \E ws \in Handles, u \in Users : ConnectUser(1, ws, u)
    \/ \E ws \in Handles : DisconnectUser(ws)
    \/ \E ws \in Handles : DebounceWake(ws)
    \/ \E u \in Users : KickUser(1, u)
    \/ \E u \in Users : DisconnectUserSessions(1, u)

Spec == Init /\ [][Next]_vars

\* one worker: channel connections only, joined and left by their endpoints
NextChan ==
    \/ \E ws \in Handles, c \in Channels, u \in Users, m \in BOOLEAN : Connect(1, ws, c, u, m)
    \/ \E ws \in Handles : Disconnect(ws)

SpecChan == Init /\ [][NextChan]_vars

\* one worker: fan-out to connections some of which fail on send
NextSend ==
    \/ \E ws \in Handles, c \in Channels, u \in Users : Connect(1, ws, c, u, TRUE)
    \/ \E ws \in Handles, u \in Users : ConnectUser(1, ws, u)
    \/ \E ws \in Handles : Drop(ws)
    \/ \E c \in Channels, x \in {0} \cup Handles : BroadcastToChannel(1, c, x)
    \/ \E u \in Users : BroadcastToUser(1, u)
    \/ \E x \in {0} \cup Users : BroadcastToAllUsers(1, 0, x)
    \/ Deliver(1)

SpecSend == Init /\ [][NextSend]_vars

\* several workers on one shared backend: init_redis succeeded on each of them
InitMP ==
    /\ InitManagers
    /\ is_connected = TRUE
    /\ fallback_mode = FALSE
    /\ workers = Procs
    /\ InitIdleParts

NextMP ==
    \/ \E p \in Procs, ws \in Handles, u \in Users : ConnectUser(p, ws, u)
    \/ \E ws \in Handles : DisconnectUser(ws)
    \/ \E p \in Procs : next_msg <= MaxMsgs /\ BroadcastToAllUsers(p, next_msg, 0)
    \/ \E p \in Procs : Deliver(p)

SpecMP == InitMP /\ [][NextMP]_vars

\* the rate limiter under calls on several keys as time passes, either mode
InitRL ==
    /\ InitManagers
    /\ \E real \in BOOLEAN : is_connected = real /\ fallback_mode = ~real
    /\ workers = {1}
    /\ InitLimiter
    /\ rl_max \in 1..MaxRequests
    /\ rl_window \in 1..MaxWindow
    /\ InitPubSub
    /\ InitStoreIdle
    /\ InitBus

NextRL ==
    \/ \E key \in RLKeys : CheckLimit(key)
    \/ Tick

SpecRL == InitRL /\ [][NextRL]_vars

\* the store in fallback mode under subscribes and publishes
InitPS ==
    /\ InitManagers
    /\ is_connected = FALSE
    /\ fallback_mode = TRUE
    /\ workers = {1}
    /\ InitIdleParts

NextPS ==
    \/ \E t \in Topics, cb \in Callbacks : Subscribe(t, cb)
    \/ \E t \in Topics : PublishFallback(t)
    \/ RunCallback

SpecPS == InitPS /\ [][NextPS]_vars

\* one worker: registrations, and second calls on handles that are registered
NextDup ==
    \/ \E ws \in Handles, c \in RegChannels, u \in Users, m \in BOOLEAN : Connect(1, ws, c, u, m)
    \/ \E ws \in Handles, u \in Users : ConnectUser(1, ws, u)
    \/ \E ws \in Handles, r \in BOOLEAN : ConnectAgain(ws, r)
    \/ \E ws \in Handles, r \in BOOLEAN : ConnectUserAgain(ws, r)
    \/ \E ws \in Handles : Disconnect(ws)

SpecDup == Init /\ [][NextDup]_vars

\* one worker: user-level connections only; asyncio.sleep(0.5) returns, so a
\* handler that sleeps in disconnect_user does wake up, each of them
NextUser ==
    \/ \E ws \in Handles, u \in Users : ConnectUser(1, ws, u)
    \/ \E ws \in Handles : DisconnectUser(ws)
    \/ \E ws \in Handles : DebounceWake(ws)

SpecUserLive ==
    Init /\ [][NextUser]_vars /\ \A ws \in Handles : WF_vars(DebounceWake(ws))

\* several workers on one shared backend as time passes: user-level
\* connections come and go on each of them
NextMPTime ==
    \/ \E p \in Procs, ws \in Handles, u \in Users : ConnectUser(p, ws, u)
    \/ \E ws \in Handles : DisconnectUser(ws)
    \/ Tick

SpecMPTime == InitMP /\ [][NextMPTime]_vars

\* one worker: user-level operations interleaved at their suspension points
NextIL ==
    \/ \E ws \in Handles, u \in Users : ConnectUser(1, ws, u)
    \/ \E ws \in Handles : DisconnectUser(ws)
    \/ \E ws \in Handles : DebounceWake(ws)
    \/ \E u \in Users : KickUser(1, u)
    \/ \E u \in Users : DusClose(1, u)
    \/ \E u \in Users : DusCleanup(1, u)

SpecIL == Init /\ [][NextIL]_vars

\* one worker: connections come and go while the application broadcasts
NextGone ==
    \/ \E ws \in Handles, c \in RegChannels, u \in Users : Connect(1, ws, c, u, TRUE)
    \/ \E ws \in Handles : Disconnect(ws)
    \/ \E ws \in Handles, u \in Users : ConnectUser(1, ws, u)
    \/ \E ws \in Handles : DisconnectUser(ws)
    \/ \E ws \in Handles : DebounceWake(ws)
    \/ \E c \in RegChannels : BroadcastToChannel(1, c, 0)
    \/ \E u \in Users : BroadcastToUser(1, u)
    \/ BroadcastToAllUsers(1, 0, 0)
    \/ Deliver(1)

SpecGone == Init /\ [][NextGone]_vars

\* the rate limiter of a real-backend process and of a fallback process under
\* the same timed calls
NextTwin ==
    \/ \E key \in RLKeys : CheckLimitTwin(key)
    \/ Tick

SpecTwin == InitRL /\ [][NextTwin]_vars

\* the store in fallback mode (connect without a url): keys are written, read,
\* counted and given expiries as time passes
InitKV ==
    /\ InitManagers
    /\ is_connected = FALSE
    /\ fallback_mode = TRUE
    /\ workers = {1}
    /\ InitIdleParts

NextKV ==
    \/ \E key \in RLKeys : Get(key, FALSE)
    \/ \E key \in RLKeys, v \in 1..MaxVal, ex \in 0..MaxWindow : Set(key, v, ex, FALSE)
    \/ \E key \in RLKeys : Delete(key, FALSE)
    \/ \E key \in RLKeys : Incr(key, FALSE)
    \/ \E key \in RLKeys, seconds \in 1..MaxWindow : Expire(key, seconds, FALSE)
    \/ \E key \in RLKeys : Ttl(key, FALSE)
    \/ Tick

SpecKV == InitKV /\ [][NextKV]_vars

\* check_rate_limit on one key under backend calls that may fail one at a
\* time, either mode
NextRLFail ==
    \/ \E f_incr, f_expire \in BOOLEAN : CheckRateLimit(1, f_incr, f_expire)
    \/ Tick

SpecRLFail == InitRL /\ [][NextRLFail]_vars

\* the store from its construction on: connects that succeed or fail, and
\* every public operation, with backend calls that may fail one at a time
InitRM ==
    /\ InitManagers
    /\ is_connected = FALSE
    /\ fallback_mode = FALSE
    /\ workers = {1}
    /\ InitIdleParts

NextRM ==
    \/ \E url, created, ping_ok \in BOOLEAN : RmConnect(url, created, ping_ok)
    \/ \E f \in BOOLEAN : Get(1, f)
    \/ \E ex \in 0..1, f \in BOOLEAN : Set(1, 1, ex, f)
    \/ \E f \in BOOLEAN : Delete(1, f)
    \/ \E f \in BOOLEAN : Incr(1, f)
    \/ \E f \in BOOLEAN : Expire(1, 1, f)
    \/ \E f \in BOOLEAN : Ttl(1, f)
    \/ \E f \in BOOLEAN : Hset(1, f)
    \/ \E f \in BOOLEAN : Hget(1, f)
    \/ \E f \in BOOLEAN : Hdel(1, f)
    \/ \E f \in BOOLEAN : Hgetall(f)
    \/ \E ser, f \in BOOLEAN : RmPublish(1, ser, f)
    \/ \E f \in BOOLEAN : RmSubscribe(1, 1, f)
    \/ StartListener

SpecRM == InitRM /\ [][NextRM]_vars

\* one worker: the two endpoints with their checks, and their disconnects
NextAuth ==
    \/ \E ws \in Handles, u \in Users, token_ok, sub_ok, user_ok \in BOOLEAN :
          UserCheck(1, ws, u, token_ok, sub_ok, user_ok)
    \/ \E ws \in Handles : CuRegister(ws)
    \/ \E ws \in Handles : CuStored(ws)
    \/ \E ws \in Handles, c \in RegChannels, u \in Users,
          token_ok, sub_ok, channel_ok, is_member, restricted, user_ok \in BOOLEAN :
          ChannelEndpoint(1, ws, c, u, token_ok, sub_ok, channel_ok, is_member, restricted,
                          user_ok)
    \/ \E ws \in Handles : Disconnect(ws)
    \/ \E ws \in Handles : DisconnectUser(ws)
    \/ \E ws \in Handles : DebounceWake(ws)

SpecAuth == Init /\ [][NextAuth]_vars

\* one worker: connections, some closed by a kick or dropped by their peer,
\* and the shutdown of the process
NextShutdown ==
    \/ \E ws \in Handles, c \in RegChannels, u \in Users : Connect(1, ws, c, u, TRUE)
    \/ \E ws \in Handles, u \in Users : ConnectUser(1, ws, u)
    \/ \E ws \in Handles : Drop(ws)
    \/ \E u \in Users : KickUser(1, u)
    \/ GracefulShutdown(1)

SpecShutdown == Init /\ [][NextShutdown]_vars

\* the event bus: registrations, removals and publishes, a publish suspended in
\* each handler it awaits
BusSize == LET n[t \in 0..NEventTypes] ==
                   IF t = 0 THEN 0 ELSE n[t-1] + Len(bus_live(eb_handlers, t))
           IN  n[NEventTypes]

NextBus ==
    \/ \E t \in EventTypes, h \in EvHandlers : BusSize < MaxBusSubs /\ EventSubscribe(t, h)
    \/ \E t \in EventTypes, h \in EvHandlers : EventUnsubscribe(t, h)
    \/ \E t \in EventTypes : EventPublish(t)
    \/ HandlerReturns

SpecBus == InitPS /\ [][NextBus]_vars

\* one worker: user-level connections come and go, the debounce completion
\* runs in its steps
NextWake ==
    \/ \E ws \in Handles, u \in Users : ConnectUser(1, ws, u)
    \/ \E ws \in Handles : DisconnectUser(ws)
    \/ \E ws \in Handles : WakeCheck(ws)
    \/ \E ws \in Handles : WakeClear(ws)

SpecWake == InitWatched /\ [][NextWake]_vars

\* one worker: channel connections are made, receive messages of senders who
\* are no longer members, lose their peers and are unregistered
NextMember ==
    \/ \E ws \in Handles, c \in RegChannels, u \in Users, m \in BOOLEAN : Connect(1, ws, c, u, m)
    \/ \E ws \in Handles, r \in BOOLEAN : NotMemberMessage(ws, r)
    \/ \E ws \in Handles : Drop(ws)
    \/ \E ws \in Handles : Disconnect(ws)

SpecMember == Init /\ [][NextMember]_vars

\* one worker, one user, as many sockets as the limit plus one: connection
\* attempts pass the endpoint's checks, are accepted and registered, and leave
NextLimit ==
    \/ \E ws \in Sockets : UserCheck(1, ws, 1, TRUE, TRUE, TRUE)
    \/ \E ws \in Sockets : CuRegister(ws)
    \/ \E ws \in Sockets : CuStored(ws)
    \/ \E ws \in Sockets : DisconnectUser(ws)
    \/ \E ws \in Sockets : DebounceWake(ws)

SpecLimit == Init /\ [][NextLimit]_vars

\* a first worker serves user-level connections, a second worker starts later
\* and serves connections too
NextStart ==
    \/ \E p \in Procs, ws \in Handles, u \in Users : ConnectUser(p, ws, u)
    \/ \E ws \in Handles : DisconnectUser(ws)
    \/ \E ws \in Handles : DebounceWake(ws)
    \/ \E p \in Procs : InitRedis(p)

SpecStart == Init /\ [][NextStart]_vars

\* one worker: connection attempts of offline users, several in flight at once;
\* nobody disconnects
NextJoin ==
    \/ \E ws \in Handles, u \in Users : UserCheck(1, ws, u, TRUE, TRUE, TRUE)
    \/ \E ws \in Handles : CuRegister(ws)
    \/ \E ws \in Handles : CuStored(ws)

SpecJoin == InitWatched /\ [][NextJoin]_vars

\* ------------------------------------------------------------ properties
\* the connections registered in channel c of worker p, as handles
ChannelHandles(p, c) ==
    IF c \in DOMAIN active_connections[p]
    THEN {e[1] : e \in Range(active_connections[p][c])}
    ELSE {}

\* the users with at least one connection to c that was registered with is_member=true
MemberUsers(p, c) == {hv[w].user : w \in {x \in ChannelHandles(p, c) : hv[x].member}}

\* C1: after any sequence of connect and disconnect calls, get_online_count(c) is
\* the number of distinct users holding at least one connection to c that was
\* registered with is_member=true.
C1_OnlineCountIsMemberUsers ==
    \A c \in Channels :
        get_online_count(channel_users[1], c) = Cardinality(MemberUsers(1, c))

\* ws is registered under worker p's channel c for user u
UserChannelHandles(p, c, u) == {w \in ChannelHandles(p, c) : hv[w].user = u}

CountedUsers(p, c) == DictGet(channel_users[p], c, {})

\* the step in which the endpoint of channel connection ws runs manager.disconnect
IsDisconnectStep(ws) == pc[ws] = "chan" /\ pc'[ws] = "idle"

\* the step in which the endpoint of a new connection ws runs manager.connect_user
IsConnectUserStep(ws) == pc[ws] = "idle" /\ pc'[ws] \in {"user", "gone"}

\* user u of worker p is inside a debounce delay: the endpoint of its last
\* connection sleeps in disconnect_user and no connection is registered
PendingOffline(p, u) ==
    /\ \E w \in Handles : pc[w] = "sleep" /\ hv[w].proc = p /\ hv[w].user = u
    /\ u \notin DOMAIN user_connections[p]

\* C2: after disconnect_user removed a user's last connection, get_online_user_ids()
\* still reports the user for the whole debounce delay, in fallback mode and with
\* a shared backend.
C2_OnlineDuringDebounce ==
    \A u \in Users :
        PendingOffline(1, u) =>
            /\ ~get_online_user_ids(1).raised
            /\ u \in get_online_user_ids(1).ids

\* C3: a connect_user that arrives during the debounce delay of its user
\* (PENDING_OFFLINE -> ONLINE) broadcasts no user_presence event.
C3_NoEventOnFlicker ==
    [][\A ws \in Handles :
          (IsConnectUserStep(ws) /\ PendingOffline(1, hv'[ws].user))
              => (last'.sends = << >> /\ last'.published = << >>)]_vars

\* no entry for u or for one of u's handles is left in worker p's structures
NoResidue(p, u) ==
    /\ u \notin DOMAIN user_connections[p]
    /\ \A c \in DOMAIN active_connections[p] :
           \A e \in Range(active_connections[p][c]) : e[2] # u
    /\ \A c \in DOMAIN channel_users[p] : u \notin channel_users[p][c]
    /\ u \notin DOMAIN session_starts[p]

HoldsBoth(p, u) ==
    /\ u \in DOMAIN user_connections[p]
    /\ \E c \in Channels : UserChannelHandles(p, c, u) # {}

\* C6: after kick_user(u) or disconnect_user_sessions(u) returns for a user with
\* user-level and channel-level connections, no entry for u is left in
\* user_connections, active_connections, channel_users or the session starts, and
\* a later counted-member connect of u to the same channel is counted again.
C6_ForcedDisconnectLeavesNoResidue ==
    [][/\ \A u \in Users :
              (HoldsBoth(1, u) /\ last'.op \in {"kick_user", "disconnect_user_sessions"}
                  /\ last'.user = u)
                  => NoResidue(1, u)'
       /\ (last.op \in {"kick_user", "disconnect_user_sessions"}
              /\ last'.op = "connect" /\ last'.user = last.user /\ hv'[last'.ws].member)
              => last'.user \in DictGet(channel_users'[1], last'.chan, {})]_vars

\* C9: a user holding k >= 2 connections to c, all registered with is_member=true,
\* is counted exactly once; disconnecting one of them while another remains leaves
\* get_online_count(c) unchanged, disconnecting the last one decreases it by one.
C9_MultiTabCountedOnce ==
    [][\A c \in Channels, u \in Users :
          LET mine == UserChannelHandles(1, c, u)
              all_member == \A w \in mine : hv[w].member
              count == get_online_count(channel_users[1], c)
              count_after == get_online_count(channel_users[1], c)'
          IN  /\ (Cardinality(mine) >= 2 /\ all_member) => u \in CountedUsers(1, c)
              /\ \A ws \in mine :
                    (IsDisconnectStep(ws) /\ all_member) =>
                        IF Cardinality(mine) >= 2
                        THEN count_after = count
                        ELSE u \in CountedUsers(1, c) => count_after = count - 1]_vars

\* C10 as claimed: disconnect(ws, c, u) broadcasts a presence count only when ws
\* was u's last connection in c, that is only when the counted-member set changed.
C10_PresenceOnlyOnChange ==
    [][\A ws \in Handles, c \in Channels, u \in Users :
          (IsDisconnectStep(ws) /\ hv[ws].chan = c /\ hv[ws].user = u
              /\ last'.sends # << >>) =>
              /\ UserChannelHandles(1, c, u) = {ws}
              /\ CountedUsers(1, c)' # CountedUsers(1, c)]_vars

\* C10 as the code has it: every disconnect(ws, c, u) sends one presence message
\* with the count after the removal to each connection that stays registered in
\* c, whether or not the counted-member set changed; the counted-member set
\* changes only when ws was u's last connection in c.
C10_PresenceOnEveryDisconnect ==
    [][\A ws \in Handles, c \in Channels, u \in Users :
          (IsDisconnectStep(ws) /\ hv[ws].chan = c /\ hv[ws].user = u) =>
              /\ Len(last'.sends) = Cardinality(ChannelHandles(1, c)')
              /\ {s.ws : s \in Range(last'.sends)} = ChannelHandles(1, c)'
              /\ \A s \in Range(last'.sends) :
                    s.msg = PresenceMsg(Cardinality(CountedUsers(1, c)'))
              /\ (CountedUsers(1, c)' # CountedUsers(1, c))
                    => (UserChannelHandles(1, c, u) = {ws}
                        /\ CountedUsers(1, c)' = CountedUsers(1, c) \ {u})]_vars

\* one of two tabs of a counted user was closed: the member set is unchanged and
\* the remaining connection was sent a presence message
C10_Witness ==
    /\ last.op = "disconnect"
    /\ last.user \in CountedUsers(1, last.chan)
    /\ UserChannelHandles(1, last.chan, last.user) # {}
    /\ last.sends # << >>

\* the send_json calls a fan-out to the handle list targets must make
Attempted(targets) ==
    /\ Len(last.sends) = Len(targets)
    /\ \A i \in DOMAIN targets :
          /\ last.sends[i].ws = targets[i]
          /\ last.sends[i].ok = ~SendRaises(targets[i])

ChannelList(p, c) ==
    IF c \in DOMAIN active_connections[p]
    THEN [i \in DOMAIN active_connections[p][c] |-> active_connections[p][c][i][1]]
    ELSE << >>

\* C7: in broadcast_to_channel, broadcast_to_user and the local broadcast-to-all
\* fan-out a send that raises on one connection does not keep the message from
\* any other target of the call, and the call does not raise.
C7_SendFailureIsolated ==
    /\ last.op = "broadcast_to_channel" =>
          /\ ~last.raised
          /\ Attempted(SelectSeq(ChannelList(1, last.chan), LAMBDA w : w # last.excl))
    /\ last.op = "broadcast_to_user" =>
          /\ ~last.raised
          /\ Attempted(DictGet(user_connections[1], last.user, << >>))
    /\ (last.op = "deliver" \/ (last.op = "broadcast_to_all_users" /\ ~is_available)) =>
          /\ ~last.raised
          /\ \A u \in DOMAIN user_connections[1] : \A w \in Range(user_connections[1][u]) :
                 u # last.excl =>
                     \E i \in DOMAIN last.sends :
                         last.sends[i].ws = w /\ last.sends[i].ok = ~SendRaises(w)

\* a channel broadcast in which the send to the first target raised and a later
\* target still got the message
C7_Witness ==
    /\ last.op = "broadcast_to_channel"
    /\ Len(last.sends) >= 2
    /\ ~last.sends[1].ok
    /\ last.sends[2].ok

\* message id is still in the listener queue of worker p
Pending(p, id) == \E i \in DOMAIN inbox[p] : inbox[p][i].val = id

\* the user-level connections registered on worker p
UserLevelHandles(p) ==
    UNION {Range(user_connections[p][u]) : u \in DOMAIN user_connections[p]}

\* C4: with several workers on one backend, broadcast_to_all_users(m) publishes to
\* ws:broadcast:all instead of sending locally, and m is then sent exactly once
\* to every user-level connection registered on every worker, the publisher's
\* own connections included (through its subscription callback only).
C4_PublishedOnceToEveryWorker ==
    /\ last.op = "broadcast_to_all_users" =>
          /\ last.sends = << >>
          /\ last.published = <<WireMsg(AppMsg(last.id), last.excl)>>
          /\ \A q \in workers : Pending(q, last.id)
    /\ \A w \in Handles, id \in 1..MaxMsgs : sent_count[w][id] <= 1
    /\ \A p \in workers : \A w \in UserLevelHandles(p) : \A id \in 1..(next_msg - 1) :
          hv[w].since <= id =>
              sent_count[w][id] = IF Pending(p, id) THEN 0 ELSE 1

\* message 1 went through both listeners and reached a connection on each worker
C4_Witness ==
    /\ next_msg > 1
    /\ \A p \in Procs : ~Pending(p, 1)
    /\ \A p \in Procs : \E w \in UserLevelHandles(p) : hv[w].since = 1 /\ sent_count[w][1] = 1

\* the calls on a key made before the window of its first call has ended
InFirstWindow(key, i) == rl_log[key][i].t - rl_log[key][1].t < rl_window

\* C5: for a fresh key, the check_limit calls made within the window of the
\* first call return true for exactly the first rl_max of them and false for
\* every further one, and the first call made once the window has passed
\* returns true again; in fallback mode and on the backend alike
C5_FreshKeyWindow ==
    \A key \in DOMAIN rl_log :
        /\ \A i \in DOMAIN rl_log[key] :
              InFirstWindow(key, i) => (rl_log[key][i].ok <=> i <= rl_max)
        /\ \A i \in DOMAIN rl_log[key] :
              (/\ ~InFirstWindow(key, i)
               /\ \A j \in 1..(i - 1) : InFirstWindow(key, j))
              => rl_log[key][i].ok

\* a key was refused inside its first window and admitted again after it
C5_Witness ==
    \E key \in DOMAIN rl_log :
        /\ Len(rl_log[key]) >= rl_max + 2
        /\ InFirstWindow(key, rl_max + 1)
        /\ ~rl_log[key][rl_max + 1].ok
        /\ \E i \in DOMAIN rl_log[key] :
              /\ rl_log[key][i].t - rl_log[key][1].t > rl_window
              /\ \A j \in 1..(i - 1) : InFirstWindow(key, j)
              /\ rl_log[key][i].ok

\* every task made by the publish of message m has run
Dispatched(m) == \A i \in DOMAIN ps_tasks : ps_tasks[i].msg # m

\* C8: in fallback mode publish(t, m) invokes every callback subscribed to t
\* exactly once with m, and no callback subscribed only to another topic
C8_InvokedExactlyOnce ==
    \A m \in DOMAIN ps_pub : Dispatched(m) =>
        \A cb \in Callbacks :
            ps_invoked[cb][m] = IF ps_pub[m].calls[cb] > 0 THEN 1 ELSE 0

\* C8 (as the code has it): in fallback mode publish(t, m) invokes a callback
\* once per subscribe(t, cb) call made before the publish, so a callback
\* subscribed twice to t is invoked twice, and a callback never subscribed to
\* t is not invoked
C8_InvokedOncePerSubscription ==
    \A m \in DOMAIN ps_pub : Dispatched(m) =>
        \A cb \in Callbacks : ps_invoked[cb][m] = ps_pub[m].calls[cb]

\* a message went to a topic with two subscribers while another callback was
\* subscribed to the other topic only, and all its tasks have run
C8_Witness ==
    \E m \in DOMAIN ps_pub, cb1, cb2 \in Callbacks :
        /\ Dispatched(m)
        /\ cb1 # cb2
        /\ ps_pub[m].calls[cb1] = 2
        /\ ps_invoked[cb1][m] = 2
        /\ ps_pub[m].calls[cb2] = 0
        /\ \E t \in Topics : t # ps_pub[m].topic /\ ps_calls[t][cb2] > 0
        /\ ps_invoked[cb2][m] = 0

\* how often x occurs in the list lst
Occurrences(lst, x) == Cardinality({i \in DOMAIN lst : lst[i] = x})

\* C11: a second connect (or connect_user) call with a handle that is already
\* registered in that channel (or under that user) is rejected without
\* changing state, so a handle appears at most once in active_connections[c]
\* and at most once in user_connections[u].
C11_HandleRegisteredOnce ==
    /\ \A c \in DOMAIN active_connections[1], ws \in Handles :
          Occurrences(ChannelList(1, c), ws) <= 1
    /\ \A u \in DOMAIN user_connections[1], ws \in Handles :
          Occurrences(user_connections[1][u], ws) <= 1
    /\ last.op \in {"connect_again", "connect_user_again"} => last.raised

\* C12: after any sequence of connect, disconnect and disconnect_user_sessions
\* calls no channel id is mapped to an empty connection list, and channel_users
\* has an entry for exactly the channel ids of active_connections.
C12_NoEmptyChannelLeft ==
    /\ \A c \in DOMAIN active_connections[1] : active_connections[1][c] # << >>
    /\ DOMAIN channel_users[1] = DOMAIN active_connections[1]

\* the last connection of a channel has just left, after a forced logout had
\* emptied the member set: both entries of the channel are gone
C12_Witness ==
    /\ last.op = "disconnect"
    /\ last.sends = << >>
    /\ close_code[last.ws] = 0
    /\ last.chan \notin DOMAIN active_connections[1]
    /\ last.chan \notin DOMAIN channel_users[1]
    /\ \E w \in Handles : close_code[w] = CODE_LOGOUT

\* the users that have a tuple in active_connections[c] of worker p
ConnectedUsers(p, c) ==
    IF c \in DOMAIN active_connections[p]
    THEN {e[2] : e \in Range(active_connections[p][c])}
    ELSE {}

\* C13: in every reachable state every user id in channel_users[c] has at least
\* one connection in active_connections[c], so the counted-member count of c
\* never exceeds the number of distinct users with a connection to c.
C13_CountedUsersAreConnected ==
    \A c \in DOMAIN channel_users[1] :
        /\ channel_users[1][c] \subseteq ConnectedUsers(1, c)
        /\ get_online_count(channel_users[1], c) <= Cardinality(ConnectedUsers(1, c))

\* a counted user closed one of two tabs while an uncounted user is connected:
\* the count stays below the number of connected users
C13_Witness ==
    /\ last.op = "disconnect"
    /\ last.user \in CountedUsers(1, last.chan)
    /\ get_online_count(channel_users[1], last.chan)
           < Cardinality(ConnectedUsers(1, last.chan))

\* the session start the store of worker p holds for u (0 entries: none)
StoredSessions(p) == IF fallback_mode THEN memory_sessions[p] ELSE redis_sessions

\* the step was a first connect_user of u on worker 1 that did all the claim lists
FirstConnectDone(ws, u) ==
    /\ ~last'.raised
    /\ u \in DOMAIN session_starts'[1] /\ session_starts'[1][u] = now
    /\ u \in DOMAIN StoredSessions(1)' /\ StoredSessions(1)'[u] = now
    /\ is_available => u \in redis_online'
    /\ IF is_available
       THEN last'.sends = << >>
            /\ last'.published = <<WireMsg(UserPresenceMsg(u, TRUE), 0)>>
       ELSE last'.published = << >>
            /\ last'.sends = local_broadcast_to_all_users(user_connections'[1],
                                                          UserPresenceMsg(u, TRUE), 0)

\* the step was a later connect_user of u on worker 1: a silent join
LaterConnectSilent(ws, u) ==
    /\ ~last'.raised
    /\ user_connections'[1][u] = Append(user_connections[1][u], ws)
    /\ last'.sends = << >> /\ last'.published = << >>
    /\ UNCHANGED <<session_starts, redis_sessions, memory_sessions, redis_online>>

\* C14: connect_user(ws, u) records a session start (locally and in the shared
\* store), adds u to ws:online_users when a real backend is available and
\* broadcasts exactly one user_presence 'online' event when u had no
\* user-level connection; otherwise it only registers ws, broadcasts nothing
\* and leaves the session start unchanged.
C14_ConnectUserFirstAndLater ==
    [][\A ws \in Handles, u \in Users :
          (IsConnectUserStep(ws) /\ hv'[ws].user = u) =>
              IF u \notin DOMAIN user_connections[1]
              THEN FirstConnectDone(ws, u)
              ELSE LaterConnectSilent(ws, u)]_vars

\* the step in which the handler of ws wakes up from the debounce sleep
IsWakeStep(ws) == pc[ws] = "sleep" /\ pc'[ws] = "idle"

\* C15: when a new connection of the user was registered during the debounce
\* delay and is still registered when the delay ends, the pending disconnect
\* is cancelled: no 'offline' event, the user stays in the shared online set
\* and the session-start records are not cleared.
C15_ReconnectCancelsOffline ==
    [][\A ws \in Handles :
          (IsWakeStep(ws) /\ hv[ws].user \in DOMAIN user_connections[hv[ws].proc]) =>
              /\ ~last'.raised
              /\ last'.sends = << >> /\ last'.published = << >>
              /\ UNCHANGED <<user_connections, session_starts, redis_sessions,
                             memory_sessions, redis_online>>]_vars

\* a debounce sleep ended while a new connection of its user was registered,
\* and the session start is still recorded
C15_Witness ==
    /\ last.op = "debounce_wake"
    /\ last.user \in DOMAIN user_connections[1]
    /\ \E w \in Handles : pc[w] = "user" /\ hv[w].user = last.user
    /\ last.user \in DOMAIN session_starts[1]
    /\ last.user \in DOMAIN StoredSessions(1)

\* u has an open user-level connection on worker 1
HasOpenUserConn(u) == \E w \in Handles : pc[w] = "user" /\ hv[w].user = u

\* u was connected on worker 1 and every user-level connection of u is closed
LastClosed(u) ==
    /\ u \in DOMAIN session_starts[1]
    /\ \E w \in Handles : pc[w] \in {"sleep", "gone"} /\ hv[w].user = u
    /\ ~HasOpenUserConn(u)

\* the debounce timer of u has just fired: 'offline' went out once, u is out of
\* the shared online set and the session-start records are cleared
OfflineDone(u) ==
    /\ last.op = "debounce_wake" /\ last.user = u /\ ~last.raised
    /\ IF is_available
       THEN last.published = <<WireMsg(UserPresenceMsg(u, FALSE), 0)>>
       ELSE last.sends = local_broadcast_to_all_users(user_connections[1],
                                                      UserPresenceMsg(u, FALSE), 0)
    /\ u \notin redis_online
    /\ u \notin DOMAIN session_starts[1]
    /\ u \notin DOMAIN StoredSessions(1)

\* C16: when a user's last user-level connection has closed and no new
\* connection of the user is registered, then eventually the 'offline' event
\* is broadcast, the user is removed from the shared online set and the local
\* and shared session-start records are cleared; in fallback mode and with a
\* real backend.
C16_OfflineAfterDebounce ==
    \A u \in Users : LastClosed(u) ~> (OfflineDone(u) \/ HasOpenUserConn(u))

\* some worker holds a registered user-level connection of u, or a handler of
\* u's last connection is inside its debounce sleep
OnlineSomewhere(u) ==
    \/ \E q \in workers : u \in DOMAIN user_connections[q]
    \/ \E w \in Handles : pc[w] = "sleep" /\ hv[w].user = u

\* C17: with several workers on one backend, get_online_user_ids() on any
\* worker contains u if and only if some worker holds a registered user-level
\* connection of u (or u is inside a debounce delay).
C17_OnlineIffConnectedSomewhere ==
    \A p \in workers, u \in Users :
        /\ OnlineSomewhere(u) =>
              (~get_online_user_ids(p).raised /\ u \in get_online_user_ids(p).ids)
        /\ (~OnlineSomewhere(u) /\ ~get_online_user_ids(p).raised) =>
              u \notin get_online_user_ids(p).ids

\* some worker holds an open user-level connection of u
OpenSomewhere(u) == \E w \in Handles : pc[w] = "user" /\ hv[w].user = u

\* C18: all workers agree on one session start per user: while the user stays
\* online on some worker the shared session_starts entry keeps the time of
\* the user's first global connection; the user's first connection on another
\* worker does not overwrite it and nothing clears it.
C18_SharedSessionStartKept ==
    [][\A u \in Users :
          (OpenSomewhere(u) /\ OpenSomewhere(u)' /\ u \in DOMAIN redis_sessions) =>
              (u \in DOMAIN redis_sessions' /\ redis_sessions'[u] = redis_sessions[u])]_vars

\* C19: get_online_user_ids() returns the members of the shared
\* ws:online_users set when the real backend is available, and otherwise
\* exactly the keys of the local user_connections map.
C19_OnlineIdsSource ==
    /\ ~get_online_user_ids(1).raised
    /\ get_online_user_ids(1).ids =
           IF is_available THEN redis_online ELSE DOMAIN user_connections[1]

\* C20: for any interleaving of connect_user, disconnect_user and
\* disconnect_user_sessions (or kick_user) at their suspension points within
\* one worker, no operation raises, and a connection whose connect_user
\* completed is in user_connections unless a disconnect has removed it: its
\* own disconnect_user, or a forced disconnect that closed it.
C20_SafeUnderInterleaving ==
    /\ ~last.raised
    /\ \A w \in Handles :
          (pc[w] = "user" /\ close_code[w] = 0) =>
              /\ hv[w].user \in DOMAIN user_connections[hv[w].proc]
              /\ w \in Range(user_connections[hv[w].proc][hv[w].user])

\* the handles registered for u on worker p: in u's user-level list or in a
\* channel list with u's id
RegisteredFor(p, u) ==
    {w \in Handles :
        \/ u \in DOMAIN user_connections[p] /\ w \in Range(user_connections[p][u])
        \/ \E c \in DOMAIN active_connections[p] : <<w, u>> \in Range(active_connections[p][c])}

\* C21: kick_user(u) closes with 4003, and disconnect_user_sessions(u) with
\* 1000, every user-level and every channel-level connection registered for u
\* and no connection of another user; a close that raises (the socket is
\* closed already) does not keep the remaining handles from being closed.
C21_ForcedCloseReachesAll ==
    [][\A u \in Users :
          (last'.op \in {"kick_user", "disconnect_user_sessions"} /\ last'.user = u) =>
              LET code == IF last'.op = "kick_user" THEN CODE_KICK ELSE CODE_LOGOUT
              IN  \A w \in Handles :
                      close_code'[w] = IF w \in RegisteredFor(1, u) /\ close_code[w] = 0
                                       THEN code
                                       ELSE close_code[w]]_vars

\* kick_user met a socket of the user that was closed before, closed another
\* one with 4003 and left the open socket of another user alone
C21_Witness ==
    /\ last.op = "kick_user"
    /\ \E w1, w2, w3 \in Handles :
          /\ hv[w1].user = last.user /\ close_code[w1] \notin {0, CODE_KICK} /\ w1 < w2
          /\ hv[w2].user = last.user /\ close_code[w2] = CODE_KICK
          /\ hv[w3].user \notin {0, last.user} /\ pc[w3] # "idle" /\ close_code[w3] = 0

\* the handles the last operation called send_json on
SentTo == {last.sends[i].ws : i \in DOMAIN last.sends}

\* C22: broadcast_to_channel(c, m, exclude_websocket=x) sends m to every
\* connection registered in c at the time of the call except x, never to x,
\* and never to a connection registered only in another channel.
C22_ChannelBroadcastTargets ==
    last.op = "broadcast_to_channel" =>
        /\ SentTo = ChannelHandles(1, last.chan) \ {last.excl}
        /\ \A i \in DOMAIN last.sends : last.sends[i].msg = AppMsg(0)
        /\ \A w \in SentTo : Cardinality({i \in DOMAIN last.sends : last.sends[i].ws = w}) = 1

\* a channel broadcast that excluded one of the channel's connections, reached
\* another one, and left out a connection of the other channel
C22_Witness ==
    /\ last.op = "broadcast_to_channel"
    /\ last.excl \in ChannelHandles(1, last.chan)
    /\ SentTo # {}
    /\ \E c \in Channels : c # last.chan /\ ChannelHandles(1, c) # {}

\* C23: once disconnect_user(ws, u) (respectively disconnect(ws, c, u)) has
\* removed ws from the registry, no broadcast_to_user or broadcast_to_all_users
\* (respectively broadcast_to_channel) that starts afterwards sends to ws: a
\* user-level fan-out reaches only handles whose endpoint has not yet called
\* disconnect_user, a channel fan-out only handles whose endpoint has not yet
\* called disconnect.
C23_NoSendAfterRemoval ==
    /\ last.op \in {"broadcast_to_user", "broadcast_to_all_users", "deliver"} =>
           \A w \in SentTo : pc[w] \in {"user", "gone"}
    /\ last.op = "broadcast_to_channel" =>
           \A w \in SentTo : pc[w] = "chan" /\ hv[w].chan = last.chan

\* a broadcast to all users that reached a connection while another handle,
\* removed by disconnect_user, was still in its handler
C23_Witness ==
    /\ last.op = "broadcast_to_all_users"
    /\ SentTo # {}
    /\ \E w \in Handles : pc[w] = "sleep" /\ w \notin SentTo

\* the user-level connections of worker p other than those of user exclude
AllButExcluded(p, exclude) ==
    {w \in Handles : \E u \in DOMAIN user_connections[p] :
                        u # exclude /\ w \in Range(user_connections[p][u])}

\* the last operation fanned AppMsg(id) out to exactly the handles in targets,
\* one send_json each
FannedOut(targets, id) ==
    /\ SentTo = targets
    /\ \A i \in DOMAIN last.sends : last.sends[i].msg = AppMsg(id)
    /\ \A w \in targets : Cardinality({i \in DOMAIN last.sends : last.sends[i].ws = w}) = 1

\* C24: for a single process broadcast_to_all_users(m, exclude_user_id) has
\* the same result in fallback mode (local fan-out by the call) and with a
\* real backend (publish, then the subscription callback): in both, the fan-out
\* sends m, without the _exclude_user_id metadata, once to every user-level
\* connection except those of exclude_user_id and to nothing else.
C24_SameFanOutInBothModes ==
    /\ (last.op = "broadcast_to_all_users" /\ ~is_available) =>
           /\ FannedOut(AllButExcluded(1, last.excl), last.id)
           /\ last.published = << >>
    /\ (last.op = "broadcast_to_all_users" /\ is_available) =>
           /\ last.sends = << >>
           /\ last.published = <<WireMsg(AppMsg(last.id), last.excl)>>
           /\ inbox[1] # << >>
           /\ inbox[1][Len(inbox[1])] = last.published[1]
    /\ last.op = "deliver" => FannedOut(AllButExcluded(1, last.excl), last.id)

\* with a real backend, the callback fanned a published message out while the
\* excluded user had a connection of their own
C24_Witness ==
    /\ last.op = "deliver"
    /\ is_available
    /\ last.excl \in DOMAIN user_connections[1]
    /\ SentTo # {}

\* C25: RateLimiter.check_limit gives the same allow/deny answer for every
\* sequence of timed calls whether the store is in real-backend or in fallback
\* mode.
C25_SameAnswerInBothModes ==
    \A key \in DOMAIN rl_log : \A i \in DOMAIN rl_log[key] :
        rl_log[key][i].ok = rl_log[key][i].ok_local

\* key has an expiry time that has passed in the in-memory store
ExpiryPassed(key) == key \in DOMAIN memory_expiry /\ memory_expiry[key] < now

\* C30: in fallback mode incr(key) returns 1 when the key is absent or its
\* expiry time has passed and otherwise the previous value plus 1, and get(key)
\* never returns the value of a key whose expiry time has passed.
C30_FallbackIncrAndGet ==
    [][now' = now =>
         /\ \A key \in RLKeys :
               (rm_last'.op = "incr" /\ rm_last'.key = key) =>
                   rm_last'.ret = <<IF key \notin DOMAIN memory_cache \/ ExpiryPassed(key)
                                    THEN 1 ELSE memory_cache[key] + 1>>
         /\ \A key \in RLKeys :
               (rm_last'.op = "get" /\ rm_last'.key = key) =>
                   rm_last'.ret = IF key \notin DOMAIN memory_cache \/ ExpiryPassed(key)
                                  THEN << >> ELSE <<memory_cache[key]>>]_vars

\* incr found a counter whose expiry had passed and started again from 1, and
\* the expired key has left the store
C30_Witness ==
    /\ rm_last.op = "incr"
    /\ rm_last.ret = <<1>>
    /\ rm_last.key \in rm_last.dropped
    /\ \E k \in DOMAIN memory_expiry : k # rm_last.key /\ memory_cache[k] > 1

\* C26: every rate:<key> counter created by check_rate_limit carries an expiry
\* of at most window_seconds, also when a backend incr or expire call fails
\* and is degraded to the in-memory path; so a key that has been denied is
\* allowed again by the next call made more than window_seconds later.
C26_NoCounterOutlivesWindow ==
    /\ \A key \in DOMAIN redis_kv :
          BackendLive(redis_kv, key, now) =>
              redis_kv[key].exp # -1 /\ redis_kv[key].exp <= now + rl_window
    /\ \A key \in DOMAIN memory_cache :
          key \in DOMAIN memory_expiry /\ memory_expiry[key] <= now + rl_window
    /\ \A key \in DOMAIN rl_log : \A i \in DOMAIN rl_log[key] :
          (/\ i < Len(rl_log[key])
           /\ ~rl_log[key][i].ok
           /\ rl_log[key][i+1].t > rl_log[key][i].t + rl_window) => rl_log[key][i+1].ok

\* a denied key that was called again after its window and was still denied
C26_DeniedAfterWindow ==
    \E key \in DOMAIN rl_log : \E i \in DOMAIN rl_log[key] :
        /\ i < Len(rl_log[key])
        /\ ~rl_log[key][i].ok
        /\ rl_log[key][i+1].t > rl_log[key][i].t + rl_window
        /\ ~rl_log[key][i+1].ok

\* C29: no public RedisManager operation propagates an exception to its
\* caller, whether the backend was never connected, is unreachable, fails in
\* the middle of an operation, or the message cannot be serialized.
C29_NoOperationRaises == ~rm_last.raised

\* the key/value, hash and pub/sub operations of the store
StoreOps == {"get", "set", "delete", "incr", "expire", "ttl", "hset", "hget", "hdel",
             "hgetall", "publish", "subscribe", "start_listener"}

\* C27: connect never raises; with no url, or when creating the client or
\* the ping fails, it leaves the store in fallback mode with is_available
\* false, and every later key/value, hash and pub/sub operation stays off the
\* backend; is_available becomes true only by a connect whose ping succeeded.
C27_ConnectFallsBack ==
    [][/\ rm_last'.op = "connect" =>
              /\ ~rm_last'.raised
              /\ rm_last'.path = "memory" => (fallback_mode' /\ ~is_available')
       /\ (is_available' /\ ~is_available) =>
              (rm_last'.op = "connect" /\ rm_last'.path = "backend")
       /\ (fallback_mode' /\ rm_last'.op \in StoreOps) => rm_last'.path # "backend"]_vars

\* a store that had been connected, lost the backend at a later connect, and
\* then counted a key in memory
C27_Witness ==
    /\ fallback_mode
    /\ is_connected
    /\ ~rm_redis
    /\ rm_last.op = "incr"
    /\ rm_last.path = "memory"
    /\ rm_last.key \in DOMAIN memory_cache

\* the operations that answer from memory when their backend call raises
DegradingOps == {"get", "set", "delete", "incr", "expire", "hset", "hget", "hdel",
                 "hgetall", "publish"}

\* C28: after a successful connect, a backend error during a single
\* get/set/delete/incr/expire/hset/hget/hdel/hgetall/publish call is answered
\* from the in-memory path for that call only and leaves the mode unchanged,
\* so the next operation is attempted against the backend again.
C28_DegradesOneCallOnly ==
    [][(is_available /\ rm_last'.op \in DegradingOps /\ ~rm_last'.raised) =>
           /\ rm_last'.fails => rm_last'.path = "memory"
           /\ ~rm_last'.fails => rm_last'.path = "backend"
           /\ ~fallback_mode'
           /\ is_available'
           /\ rm_redis']_vars

\* with the backend available an incr was answered from memory, while the
\* backend holds the counter of the calls that did reach it
C28_Witness ==
    /\ is_available
    /\ rm_last.op = "incr"
    /\ rm_last.fails
    /\ rm_last.path = "memory"
    /\ rm_last.key \in DOMAIN memory_cache
    /\ rm_last.key \in DOMAIN redis_kv

\* subscribe raised on a store that was never connected
C29_SubscribeRaised == rm_last.op = "subscribe" /\ rm_last.raised /\ ~is_connected

RegisteredAnywhere(p) ==
    {w \in Sockets :
        \/ \E u \in DOMAIN user_connections[p] : w \in Range(user_connections[p][u])
        \/ \E c \in DOMAIN active_connections[p] : \E i \in DOMAIN active_connections[p][c] :
              active_connections[p][c][i][1] = w}

\* C32: graceful_shutdown() calls close with code 1001 on every connection
\* registered in user_connections and in active_connections; a close that
\* raises on one connection does not keep the others from being closed, and
\* the call does not raise.
C32_ShutdownClosesAll ==
    [][last'.op = "graceful_shutdown" =>
           /\ ~last'.raised
           /\ \A w \in Sockets :
                 close_code'[w] = IF w \in RegisteredAnywhere(1) /\ close_code[w] = 0
                                  THEN CODE_SHUTDOWN ELSE close_code[w]]_vars

\* a shutdown that met a socket closed earlier by a kick and closed a
\* user-level and a channel connection after it
C32_Witness ==
    /\ last.op = "graceful_shutdown"
    /\ \E w1, w2, w3 \in Handles :
          /\ w1 < w2 /\ w1 < w3 /\ w2 # w3
          /\ close_code[w1] = CODE_KICK
          /\ pc[w2] = "chan" /\ close_code[w2] = CODE_SHUTDOWN
          /\ pc[w3] \in {"user", "gone"} /\ close_code[w3] = CODE_SHUTDOWN

\* a publish call that has returned
PublishDone == ~eb_run.active /\ eb_run.etype # 0

\* the subsequence of sq made of the elements in S
RECURSIVE Restrict(_, _)
Restrict(sq, S) ==
    IF sq = << >> THEN << >>
    ELSE IF Head(sq) \in S THEN <<Head(sq)>> \o Restrict(Tail(sq), S)
    ELSE Restrict(Tail(sq), S)

\* C33: when publish(e) has returned, every handler that was subscribed for
\* type(e) during the whole call has been awaited exactly once, these handlers
\* were awaited in the order of their subscription, and no handler was awaited
\* that was never subscribed for type(e) during the call; with no subscriber
\* nothing was awaited.
C33_PublishAwaitsEachOnceInOrder ==
    PublishDone =>
        LET kept == Range(eb_run.start) \ eb_run.removed
        IN  /\ \A h \in kept : Occurrences(eb_run.called, h) = 1
            /\ Restrict(eb_run.called, kept) = Restrict(eb_run.start, kept)
            /\ Range(eb_run.called) \subseteq Range(eb_run.start) \cup eb_run.added
            /\ eb_run.start = << >> => eb_run.called = << >>

\* C33, sequential use: with no subscribe or unsubscribe during the call, the
\* handlers awaited are exactly the subscribed list
C33_SequentialPublish ==
    (PublishDone /\ eb_run.removed = {} /\ eb_run.added = {}) => eb_run.called = eb_run.start

C33_Witness ==
    /\ PublishDone
    /\ Len(eb_run.start) >= 2
    /\ eb_run.called = eb_run.start
    /\ \E t \in EventTypes : t # eb_run.etype /\ Range(bus_live(eb_handlers, t)) \ Range(eb_run.start) # {}

\* C34: every user with at least one connection in user_connections has a
\* local session-start record.
C34_ConnectedHasSessionStart ==
    \A p \in Procs : \A u \in DOMAIN user_connections[p] :
        user_connections[p][u] # << >> => u \in DOMAIN session_starts[p]

\* C35: the user_presence events one process emits for a user alternate and
\* start with 'online' (in particular: no two 'offline' events without an
\* 'online' event between them).
C35_PresenceAlternates ==
    \A x \in Procs \X Users :
        last.presence[x] \notin {"online_again", "offline_again", "offline_first"}

\* C35, the case the claim names: no 'offline' event follows an 'offline' event
C35_NoOfflineTwice ==
    \A x \in Procs \X Users : last.presence[x] # "offline_again"

\* C36: every connection in active_connections belongs to a channel handler
\* that is still running (a handler that has terminated has called
\* manager.disconnect), and every user counted in channel_users has such a
\* connection in the channel.
C36_TerminatedHandlerUnregistered ==
    \A p \in Procs : \A c \in DOMAIN active_connections[p] :
        /\ \A i \in DOMAIN active_connections[p][c] :
              pc[active_connections[p][c][i][1]] = "chan"
        /\ \A u \in DictGet(channel_users[p], c, {}) :
              \E i \in DOMAIN active_connections[p][c] :
                  /\ active_connections[p][c][i][2] = u
                  /\ pc[active_connections[p][c][i][1]] = "chan"

\* C36, the connections only
C36_NoClosedConnectionStays ==
    \A p \in Procs : \A c \in DOMAIN active_connections[p] :
        \A i \in DOMAIN active_connections[p][c] :
            pc[active_connections[p][c][i][1]] = "chan"

\* C37: a connect_user call that raises leaves user_connections and the
\* session starts (local and stored) as they were before the call.
C37_RaisingConnectLeavesNoTrace ==
    [][\A ws \in Handles :
          (pc[ws] = "idle" /\ pc'[ws] = "gone" /\ last'.op = "connect_user" /\ last'.raised)
             => UNCHANGED <<user_connections, session_starts, redis_sessions,
                            memory_sessions>>]_vars

\* C38: no user has more than 5 registered user-level connections.
C38_AtMostFiveConnections ==
    \A p \in Procs : \A u \in DOMAIN user_connections[p] :
        Len(user_connections[p][u]) <= MAX_USER_CONNECTIONS

\* the users with a live user-level connection on a worker other than p
ConnectedElsewhere(p) ==
    {hv[w].user : w \in {x \in Handles : pc[x] = "user" /\ hv[x].proc # p}}

CallsFor(u) == {w \in Handles : pc[w] # "idle" /\ hv[w].user = u}

InFlightFor(u) == {w \in CallsFor(u) : pc[w] \in {"accepted", "storing"}}

\* what C40 promises for user u once the calls have returned
JoinedOnce(u) ==
    /\ last.presence[<<1, u>>] = "online"
    /\ u \in DOMAIN session_starts[1]
    /\ u \in DOMAIN user_connections[1]
    /\ \A w \in CallsFor(u) : Occurrences(user_connections[1][u], w) = 1
    /\ \A w \in CallsFor(u) : pc[w] = "user"

\* C40: when the concurrent connect_user calls for a previously offline user
\* have returned, exactly one 'online' event was emitted, a session start is
\* recorded, and each of the connections is in user_connections[u].
C40_OneFirstConnection ==
    \A u \in Users : (CallsFor(u) # {} /\ InFlightFor(u) = {}) => JoinedOnce(u)

\* C40 without a backend
C40_WithoutBackend ==
    ~is_available => C40_OneFirstConnection

====
